---------------------------- MODULE Spec2Model ----------------------------
(***************************************************************************)
(* Verification model of modern-json-react.                                *)
(*                                                                         *)
(*   Spec        the undo/redo history hook (useUndoRedo) driven by        *)
(*               arbitrary set / undo / redo / reset calls and a clock     *)
(*   ParserSpec  the parse + debounced validation hook (useJsonParser)     *)
(*   EditorSpec  the JsonEditor component wiring both hooks together       *)
(*   SearchSpec  the search hook (useSearch): query, options, navigation   *)
(*   ScanSpec    the text scan of useSearch, one regex.exec at a time      *)
(*   PathSpec    getByPath / setByPath / deleteByPath on heap documents    *)
(*   TreeSpec    buildTree under arbitrary expansion sets and toggles      *)
(*   ValidatorSpec  validateSchema on a set of values and schemas          *)
(*   LineColSpec    getLineColFromOffset, then getOffsetFromLineCol        *)
(*   TreeEditSpec   the mutation handlers of the tree editor, followed by  *)
(*                  handleTreeChange (JSON.stringify, parse effect)        *)
(***************************************************************************)
EXTENDS Integers, Sequences, FiniteSets, TLC

(***************************************************************************)
(* Bounds of the model                                                     *)
(***************************************************************************)
\* largest maxHistory option explored (the option itself is chosen in Init)
MaxHistoryBound == 3
\* Date.now() at mount, in ms; any value far above the grouping interval
StartTime == 1000
\* granularity of the clock, in ms
TickStep == 100
\* number of clock steps explored
MaxTicks == 6

\* const { maxHistory = 100, groupingInterval = 300 } = options
groupingInterval == 300

MaxTime == StartTime + MaxTicks * TickStep

Max(a, b) == IF a > b THEN a ELSE b
Min(a, b) == IF a < b THEN a ELSE b

(***************************************************************************)
(* JSON values and texts                                                   *)
(***************************************************************************)
Undefined == [k |-> "undefined"]
JNum(n) == [k |-> "num", v |-> n]
JObj(pairs) == [k |-> "obj", v |-> pairs]
\* the documents the model edits: {"a":1} and 2
ObjA == JObj(<<[key |-> "a", val |-> JNum(1)]>>)
Num2 == JNum(2)
JsonValues == {ObjA, Num2}

Digits == <<"0", "1", "2", "3", "4", "5", "6", "7", "8", "9">>
\* the indent argument of JSON.stringify: 0 (none), 2, 4
IndentStr(indent) == CASE indent = 0 -> ""
                       [] indent = 2 -> "  "
                       [] indent = 4 -> "    "
                       [] OTHER -> "\t"

\* JSON.stringify(value, null, indent) for numbers and one-level objects
RECURSIVE SerializePairs(_, _, _)
SerializePairs(pairs, indent, i) ==
  IF i > Len(pairs) THEN ""
  ELSE LET p == pairs[i]
           sep == IF i < Len(pairs) THEN "," ELSE ""
           nl == IF indent = 0 THEN "" ELSE "\n"
           colon == IF indent = 0 THEN ":" ELSE ": "
       IN nl \o IndentStr(indent) \o "\"" \o p.key \o "\"" \o colon
             \o Digits[p.val.v + 1] \o sep \o SerializePairs(pairs, indent, i + 1)

JSONstringify(value, indent) ==
  CASE value.k = "num" -> Digits[value.v + 1]
    [] value.k = "obj" ->
         IF Len(value.v) = 0 THEN "{}"
         ELSE "{" \o SerializePairs(value.v, indent, 1)
                  \o (IF indent = 0 THEN "" ELSE "\n") \o "}"

\* stringifyJson: '' for undefined, otherwise JSON.stringify
stringifyJson(value, indent) ==
  IF value = Undefined THEN "" ELSE JSONstringify(value, indent)

BadText == "{bad"
Indents == {0, 2, 4}
\* the values the history hook is exercised with on its own
HookValues == {"", BadText, JSONstringify(Num2, 0)}
\* the texts a user can type or a caller can pass
Texts == {"", BadText} \cup {JSONstringify(v, i) : v \in JsonValues, i \in {0, 2}}

\* JSON.parse restricted to the texts of the model: the inverse of
\* JSON.stringify on serialisable values, a SyntaxError otherwise
ValidTexts == {JSONstringify(v, i) : v \in JsonValues, i \in Indents}
ParseTable ==
  [t \in ValidTexts |->
     CHOOSE v \in JsonValues : \E i \in Indents : JSONstringify(v, i) = t]
JSONparses(text) == text \in ValidTexts
JSONparse(text) == ParseTable[text]

\* parseJson: empty text is "no value, no error"
parseJson(text) ==
  IF text = "" THEN [value |-> Undefined, error |-> FALSE]
  ELSE IF JSONparses(text) THEN [value |-> JSONparse(text), error |-> FALSE]
  ELSE [value |-> Undefined, error |-> TRUE]

(***************************************************************************)
(* useUndoRedo                                                             *)
(***************************************************************************)
VARIABLES
  historyRef,      \* historyRef.current: the entries
  positionRef,     \* positionRef.current: 0-based index of the current entry
  lastUpdateTime,  \* lastUpdateTime.current: Date.now() of the previous set, 0 if none
  maxHistory,      \* the maxHistory option
  rendered,        \* what the hook returned at its last render
  now,             \* the clock, Date.now()
  op,              \* the last call made: its name and argument, whether a set was
                   \* grouped, and for undo/redo the value current before it and
                   \* whether the position moved
  freshSets        \* number of sets since a fresh history while all were non-grouped, else -1

hvars == <<historyRef, positionRef, lastUpdateTime, maxHistory, rendered, now, op, freshSets>>

\* reading an array index that does not exist yields undefined
UndefinedEntry == "<undefined>"

\* the record of a call kept in op
Call(name, value, grouped, before, moved) ==
  [name |-> name, value |-> value, grouped |-> grouped, before |-> before, moved |-> moved]

\* HookReturn with canUndo computed as position >= 0
HookReturn_CanUndoOffByOne(h, p) ==
  [current |-> IF p + 1 \in DOMAIN h THEN h[p + 1] ELSE UndefinedEntry,
   canUndo |-> p >= 0,
   canRedo |-> p < Len(h) - 1,
   historyLength |-> Len(h)]

\* the object returned by the hook (lines 98-107), computed from the refs at render
HookReturn(h, p) ==
  [current |-> IF p + 1 \in DOMAIN h THEN h[p + 1] ELSE UndefinedEntry,
   canUndo |-> p > 0,
   canRedo |-> p < Len(h) - 1,
   historyLength |-> Len(h)]

\* prev.slice(from, to) with 0-based, end-exclusive bounds
Slice(s, from, to) == SubSeq(s, from + 1, Min(to, Len(s)))

\* the shouldGroup test of set
shouldGroup(t, last) == t - last < groupingInterval

\* SetEntries whose grouped branch appends instead of replacing
SetEntries_GroupAppends(prev, pos, value, group) ==
  [h |-> Slice(prev, 0, pos + 1) \o <<value>>, p |-> pos + 1]

\* SetEntries whose append keeps the redo tail
SetEntries_KeepsRedoTail(prev, pos, value, group) ==
  IF group /\ pos > 0
    THEN [h |-> Slice(prev, 0, pos) \o <<value>>, p |-> pos]
    ELSE [h |-> prev \o <<value>>, p |-> pos + 1]

\* SetEntries whose grouped branch replaces the entry in place and keeps
\* the entries after it
SetEntries_GroupKeepsTail(prev, pos, value, group) ==
  IF group /\ pos > 0
    THEN [h |-> [prev EXCEPT ![pos + 1] = value], p |-> pos]
    ELSE [h |-> Slice(prev, 0, pos + 1) \o <<value>>, p |-> pos + 1]

\* the history and position set() computes before trimming
SetEntries(prev, pos, value, group) ==
  IF group /\ pos > 0
    THEN [h |-> Slice(prev, 0, pos) \o <<value>>, p |-> pos]
    ELSE [h |-> Slice(prev, 0, pos + 1) \o <<value>>, p |-> pos + 1]

\* TrimEntries that does not shift the position
TrimEntries_NoShift(e, maxH) ==
  IF Len(e.h) > maxH
    THEN LET trimCount == Len(e.h) - maxH
         IN [h |-> Slice(e.h, trimCount, Len(e.h)), p |-> Max(0, e.p)]
    ELSE [h |-> e.h, p |-> Max(0, e.p)]

\* TrimEntries that drops the newest entries instead of the oldest
TrimEntries_DropsNewest(e, maxH) ==
  IF Len(e.h) > maxH
    THEN LET trimCount == Len(e.h) - maxH
         IN [h |-> Slice(e.h, 0, maxH), p |-> Max(0, e.p - trimCount)]
    ELSE [h |-> e.h, p |-> Max(0, e.p)]

\* "Trim to max history" and the final Math.max(0, newPos)
TrimEntries(e, maxH) ==
  IF Len(e.h) > maxH
    THEN LET trimCount == Len(e.h) - maxH
         IN [h |-> Slice(e.h, trimCount, Len(e.h)), p |-> Max(0, e.p - trimCount)]
    ELSE [h |-> e.h, p |-> Max(0, e.p)]

HistoryInit(initialValue) ==
  /\ historyRef = <<initialValue>>
  /\ positionRef = 0
  /\ lastUpdateTime = 0
  /\ maxHistory \in 1..MaxHistoryBound
  /\ rendered = HookReturn(<<initialValue>>, 0)
  /\ now = StartTime
  /\ op = Call("init", initialValue, FALSE, "", FALSE)
  /\ freshSets = 0

\* set(value)
HistorySet(value) ==
  LET group == shouldGroup(now, lastUpdateTime)
      grouped == group /\ positionRef > 0
      e == TrimEntries(SetEntries(historyRef, positionRef, value, group), maxHistory)
  IN /\ lastUpdateTime' = now
     /\ historyRef' = e.h
     /\ positionRef' = e.p
     /\ rendered' = HookReturn(e.h, e.p)
     /\ op' = Call("set", value, grouped, "", FALSE)
     /\ freshSets' = IF grouped \/ freshSets < 0 \/ freshSets > MaxHistoryBound
                       THEN -1 ELSE freshSets + 1
     /\ UNCHANGED maxHistory

\* undo()
HistoryUndo ==
  /\ IF positionRef > 0
       THEN /\ positionRef' = positionRef - 1
            /\ rendered' = HookReturn(historyRef, positionRef - 1)
       ELSE UNCHANGED <<positionRef, rendered>>
  /\ op' = Call("undo", "", FALSE, rendered.current, positionRef > 0)
  /\ freshSets' = -1
  /\ UNCHANGED <<historyRef, lastUpdateTime, maxHistory>>

\* redo() without its guard
HistoryRedo_NoGuard ==
  /\ positionRef' = positionRef + 1
  /\ rendered' = HookReturn(historyRef, positionRef + 1)
  /\ op' = Call("redo", "", FALSE, rendered.current, positionRef < Len(historyRef) - 1)
  /\ freshSets' = -1
  /\ UNCHANGED <<historyRef, lastUpdateTime, maxHistory>>

\* redo()
HistoryRedo ==
  /\ IF positionRef < Len(historyRef) - 1
       THEN /\ positionRef' = positionRef + 1
            /\ rendered' = HookReturn(historyRef, positionRef + 1)
       ELSE UNCHANGED <<positionRef, rendered>>
  /\ op' = Call("redo", "", FALSE, rendered.current, positionRef < Len(historyRef) - 1)
  /\ freshSets' = -1
  /\ UNCHANGED <<historyRef, lastUpdateTime, maxHistory>>

\* reset(value) that leaves the grouping timer running
HistoryReset_KeepsTimer(value) ==
  /\ historyRef' = <<value>>
  /\ positionRef' = 0
  /\ rendered' = HookReturn(<<value>>, 0)
  /\ op' = Call("reset", value, FALSE, "", FALSE)
  /\ freshSets' = 0
  /\ UNCHANGED <<maxHistory, lastUpdateTime>>

\* reset(value)
HistoryReset(value) ==
  /\ historyRef' = <<value>>
  /\ positionRef' = 0
  /\ lastUpdateTime' = 0
  /\ rendered' = HookReturn(<<value>>, 0)
  /\ op' = Call("reset", value, FALSE, "", FALSE)
  /\ freshSets' = 0
  /\ UNCHANGED maxHistory

\* time passes between calls
ClockTick ==
  /\ now < MaxTime
  /\ now' = now + TickStep

(***************************************************************************)
(* useJsonParser                                                           *)
(***************************************************************************)
\* number of debounce timers ever scheduled in a run of the model
MaxTimers == 3

\* const { schema, validators, debounce = 300 } = options
debounce == 300

VARIABLES
  text,              \* useState text
  parsedValue,       \* useState parsedValue
  parseError,        \* useState parseError (TRUE: a ParseError, FALSE: null)
  validationErrors,  \* useState validationErrors
  debounceTimer,     \* debounceTimer.current: id of the last timer set, 0 if none
  timers,            \* the timers pending in the event loop
  inflight,          \* validation runs awaiting runCustomValidators
  schema,            \* the schema option: "none" or "object" for {type: 'object'}
  validators,        \* the validators option: "none", "sync" or "async"
  nextTimerId,       \* the id setTimeout returns next
  cancelled,         \* ids of the timers cleared while still pending
  fired,             \* the timer whose callback ran last
  writer,            \* the run that wrote validationErrors last, 0 if the effect cleared them
  newestWriter       \* the newest run that has written validationErrors so far

pvars == <<text, parsedValue, parseError, validationErrors, debounceTimer, timers,
           inflight, schema, validators, nextTimerId, cancelled, fired, writer,
           newestWriter>>

NoRun == [id |-> 0, value |-> Undefined]

\* getJsonType of the validator
getJsonType(value) ==
  CASE value.k = "num" -> "integer"
    [] value.k = "real" -> "number"
    [] value.k = "obj" -> "object"
    [] value.k = "arr" -> "array"
    [] value.k = "str" -> "string"
    [] value.k = "bool" -> "boolean"
    [] OTHER -> value.k

\* validateSchema(value, schema).errors for the schema {type: 'object'}
validateSchema(value, sch) ==
  IF sch = "none" THEN <<>>
  ELSE IF getJsonType(value) = sch THEN <<>>
  ELSE <<[schemaKeyword |-> "type", actualValue |-> value]>>

\* what the custom validator of the model reports: one error naming the value
customValidator(value) == <<[schemaKeyword |-> "custom", actualValue |-> value]>>

\* the error list a validation run of `value` ends with (lines 64-76)
ValidationResult(value) ==
  validateSchema(value, schema)
    \o (IF validators = "none" THEN <<>> ELSE customValidator(value))

\* clearTimeout that leaves the timer pending
clearTimeout_LeavesPending(tms, id) == tms

\* clearTimeout(debounceTimer.current)
clearTimeout(tms, id) == {tm \in tms : tm.id # id}

\* the effect on [text, schema, validators, debounce]: cleanup of the previous
\* run, then parse and either schedule the validation or clear the errors
ParseEffect(t) ==
  LET result == parseJson(t)
      cleaned == clearTimeout(timers, debounceTimer)
  IN /\ parsedValue' = result.value
     /\ parseError' = result.error
     /\ cancelled' = cancelled \cup {tm.id : tm \in timers \ cleaned}
     /\ IF ~result.error /\ result.value # Undefined
          THEN /\ nextTimerId <= MaxTimers
               /\ timers' = clearTimeout(cleaned, debounceTimer)
                              \cup {[id |-> nextTimerId, value |-> result.value,
                                     due |-> now + debounce]}
               /\ debounceTimer' = nextTimerId
               /\ nextTimerId' = nextTimerId + 1
               /\ UNCHANGED <<validationErrors, writer>>
          ELSE /\ timers' = cleaned
               /\ validationErrors' = <<>>
               /\ writer' = 0
               /\ UNCHANGED <<debounceTimer, nextTimerId>>
     /\ UNCHANGED <<inflight, schema, validators, fired, newestWriter>>

\* setText(newText): React re-renders and re-runs the effect only if the state changed
ParserSetText(newText) ==
  IF newText = text
    THEN UNCHANGED pvars
    ELSE text' = newText /\ ParseEffect(newText)

\* format(indent)
ParserFormat(indent) ==
  IF parsedValue # Undefined
    THEN ParserSetText(stringifyJson(parsedValue, indent))
    ELSE UNCHANGED pvars

\* setValidationErrors(errors) at the end of a validation run
ApplyRun(run, errors) ==
  /\ validationErrors' = errors
  /\ writer' = run.id
  /\ newestWriter' = IF run.id > newestWriter.id
                       THEN [id |-> run.id, value |-> run.value] ELSE newestWriter

\* the debounce timer callback (lines 63-77)
ParserTimerFire(tm) ==
  /\ tm.due <= now
  /\ timers' = timers \ {tm}
  /\ fired' = [id |-> tm.id, value |-> tm.value]
  /\ IF validators = "async"
       THEN /\ inflight' = inflight \cup {[id |-> tm.id, value |-> tm.value,
                                           errors |-> validateSchema(tm.value, schema)]}
            /\ UNCHANGED <<validationErrors, writer, newestWriter>>
       ELSE /\ ApplyRun(tm, ValidationResult(tm.value))
            /\ UNCHANGED inflight
  /\ UNCHANGED <<text, parsedValue, parseError, debounceTimer, schema, validators,
                 nextTimerId, cancelled>>

\* Promise.all of runCustomValidators settles: the run resumes after its await
ParserValidatorsResolve(run) ==
  /\ inflight' = inflight \ {run}
  /\ ApplyRun(run, run.errors \o customValidator(run.value))
  /\ UNCHANGED <<text, parsedValue, parseError, debounceTimer, timers, schema,
                 validators, nextTimerId, cancelled, fired>>

\* the state after mount: the first run of the effect has parsed the initial text
ParserInit(initialText) ==
  LET result == parseJson(initialText)
      valid == ~result.error /\ result.value # Undefined
  IN /\ text = initialText
     /\ parsedValue = result.value
     /\ parseError = result.error
     /\ validationErrors = <<>>
     /\ debounceTimer = IF valid THEN 1 ELSE 0
     /\ timers = IF valid
                   THEN {[id |-> 1, value |-> result.value, due |-> StartTime + debounce]}
                   ELSE {}
     /\ nextTimerId = IF valid THEN 2 ELSE 1
     /\ inflight = {}
     /\ schema \in {"none", "object"}
     /\ validators \in {"none", "sync", "async"}
     /\ cancelled = {}
     /\ fired = NoRun
     /\ writer = 0
     /\ newestWriter = NoRun

(***************************************************************************)
(* useSearch                                                               *)
(***************************************************************************)
\* Strings that are searched or used as paths are sequences of one-character
\* strings, so that they can be scanned position by position.
\* largest number of characters of a search query
MaxQueryLen == 2

\* the characters a query is typed from
QueryChars == {"a", "b", "*", "("}
Queries == UNION {[1..n -> QueryChars] : n \in 0..MaxQueryLen}
\* the texts the editor shows while searching
SearchTexts == {<<>>, <<"b">>, <<"a", "b", "\n", "A", "a">>}
OptionSets == [caseSensitive : BOOLEAN, useRegex : BOOLEAN]

\* the characters escapeRegex puts a backslash in front of
MetaChars == {".", "*", "+", "?", "^", "$", "{", "}", "(", ")", "|", "[", "]", "\\"}

RECURSIVE escapeRegex(_)
escapeRegex(str) ==
  IF str = <<>> THEN <<>>
  ELSE (IF Head(str) \in MetaChars THEN <<"\\", Head(str)>> ELSE <<Head(str)>>)
       \o escapeRegex(Tail(str))

\* new RegExp(pattern, flags) for patterns made of literal characters, '.',
\* a postfix '*' and backslash escapes.  A '(' is an unterminated group (the
\* alphabet has no ')') and a '*' with nothing to repeat is rejected: both
\* throw a SyntaxError (ok = FALSE).
RECURSIVE ParseItems(_, _, _)
ParseItems(pattern, i, acc) ==
  IF i > Len(pattern) THEN [ok |-> TRUE, items |-> acc]
  ELSE LET c == pattern[i] IN
    CASE c = "\\" ->
           IF i + 1 > Len(pattern) THEN [ok |-> FALSE, items |-> <<>>]
           ELSE ParseItems(pattern, i + 2,
                  Append(acc, [kind |-> "lit", c |-> pattern[i + 1], star |-> FALSE]))
      [] c = "*" ->
           IF acc = <<>> \/ acc[Len(acc)].star THEN [ok |-> FALSE, items |-> <<>>]
           ELSE ParseItems(pattern, i + 1,
                  [acc EXCEPT ![Len(acc)].star = TRUE])
      [] c = "(" -> [ok |-> FALSE, items |-> <<>>]
      [] c = "." ->
           ParseItems(pattern, i + 1,
                  Append(acc, [kind |-> "any", c |-> ".", star |-> FALSE]))
      [] OTHER ->
           ParseItems(pattern, i + 1,
                  Append(acc, [kind |-> "lit", c |-> c, star |-> FALSE]))

NewRegExp(pattern) == ParseItems(pattern, 1, <<>>)

\* case folding of the 'i' flag
Fold(c) == IF c = "A" THEN "a" ELSE IF c = "B" THEN "b" ELSE c

CharMatches(item, ch, ignoreCase) ==
  \/ item.kind = "any"
  \/ item.kind = "lit" /\ (IF ignoreCase THEN Fold(item.c) = Fold(ch) ELSE item.c = ch)

\* the end offset of the match of items[k..] that starts at offset pos of
\* line, or -1; a starred item is greedy and backtracks
RECURSIVE MatchAt(_, _, _, _, _)
MatchAt(items, k, line, pos, ignoreCase) ==
  IF k > Len(items) THEN pos
  ELSE IF items[k].star
    THEN LET runs == {n \in 0..(Len(line) - pos) :
                        \A j \in 1..n : CharMatches(items[k], line[pos + j], ignoreCase)}
             good == {n \in runs : MatchAt(items, k + 1, line, pos + n, ignoreCase) # -1}
         IN IF good = {} THEN -1
            ELSE MatchAt(items, k + 1, line,
                         pos + (CHOOSE n \in good : \A o \in good : o <= n), ignoreCase)
    ELSE IF pos < Len(line) /\ CharMatches(items[k], line[pos + 1], ignoreCase)
           THEN MatchAt(items, k + 1, line, pos + 1, ignoreCase)
           ELSE -1

\* regex.exec(line) of a global regex whose lastIndex is lastIndex: the
\* leftmost match at or after lastIndex, or null (and lastIndex back to 0)
RegExpExec(items, line, lastIndex, ignoreCase) ==
  LET starts == {s \in lastIndex..Len(line) : MatchAt(items, 1, line, s, ignoreCase) # -1}
  IN IF lastIndex > Len(line) \/ starts = {}
       THEN [found |-> FALSE, index |-> 0, end |-> 0, lastIndex |-> 0]
       ELSE LET s == CHOOSE s \in starts : \A o \in starts : s <= o
                e == MatchAt(items, 1, line, s, ignoreCase)
            IN [found |-> TRUE, index |-> s, end |-> e, lastIndex |-> e]

\* text.split('\n')
RECURSIVE SplitLines(_)
SplitLines(t) ==
  IF \A i \in 1..Len(t) : t[i] # "\n" THEN <<t>>
  ELSE LET i == CHOOSE i \in 1..Len(t) :
                   t[i] = "\n" /\ \A j \in 1..(i - 1) : t[j] # "\n"
       IN <<SubSeq(t, 1, i - 1)>> \o SplitLines(SubSeq(t, i + 1, Len(t)))

\* the position of the scan: the line of the for loop, regex.lastIndex and
\* the results pushed so far
ScanStart == [lineIdx |-> 0, lastIndex |-> 0, results |-> <<>>]
ScanDone(s, lines) == s.lineIdx >= Len(lines)

\* regex.lastIndex after a match was pushed (line 77)
Advance_NoZeroWidthStep(m) == m.lastIndex
Advance(m) == IF m.index = m.lastIndex THEN m.lastIndex + 1 ELSE m.lastIndex

\* one evaluation of the while condition of line 69: either the body runs
\* (a match is pushed, lastIndex advances) or the for loop moves to the next
\* line with lastIndex reset
ScanStep(s, items, ignoreCase, lines) ==
  LET line == lines[s.lineIdx + 1]
      m == RegExpExec(items, line, s.lastIndex, ignoreCase)
  IN IF m.found
       THEN [lineIdx |-> s.lineIdx,
             lastIndex |-> Advance(m),
             results |-> Append(s.results,
                           [line |-> s.lineIdx + 1, columnStart |-> m.index,
                            columnEnd |-> m.end,
                            matchText |-> SubSeq(line, m.index + 1, m.end)])]
       ELSE [lineIdx |-> s.lineIdx + 1, lastIndex |-> 0, results |-> s.results]

RECURSIVE RunScan(_, _, _, _)
RunScan(s, items, ignoreCase, lines) ==
  IF ScanDone(s, lines) THEN s.results
  ELSE RunScan(ScanStep(s, items, ignoreCase, lines), items, ignoreCase, lines)

\* the pattern handed to new RegExp (line 57)
PatternOf(q, o) == IF o.useRegex THEN q ELSE escapeRegex(q)

\* the matches memo (lines 52-86)
computeMatches(q, t, o) ==
  IF q = <<>> \/ t = <<>> THEN <<>>
  ELSE LET regex == NewRegExp(PatternOf(q, o))
       IN IF ~regex.ok THEN <<>>
          ELSE RunScan(ScanStart, regex.items, ~o.caseSensitive, SplitLines(t))

VARIABLES
  query,              \* useState('')
  currentMatchIndex,  \* useState(0)
  isActive,           \* useState(false)
  options,            \* useState({caseSensitive: false, useRegex: false, ...})
  searchText,         \* the text argument of the hook
  nav                 \* the last call and the run of goToNext calls it ends

svars == <<query, currentMatchIndex, isActive, options, searchText, nav>>

matches == computeMatches(query, searchText, options)

\* nav.name: the call; nav.before, nav.total: currentMatchIndex and
\* matches.length when it was made; nav.start, nav.count: the index at which
\* the current run of consecutive goToNext calls began and its length
NavOther(name) ==
  nav' = [name |-> name, before |-> currentMatchIndex, total |-> Len(matches),
          start |-> currentMatchIndex', count |-> 0]

SearchInit(t) ==
  /\ query = <<>>
  /\ currentMatchIndex = 0
  /\ isActive = FALSE
  /\ options = [caseSensitive |-> FALSE, useRegex |-> FALSE]
  /\ searchText = t
  /\ nav = [name |-> "mount", before |-> 0, total |-> 0, start |-> 0, count |-> 0]

\* goToNext (lines 88-91)
SearchGoToNext_NoWrap ==
  /\ IF Len(matches) = 0
       THEN UNCHANGED currentMatchIndex
       ELSE currentMatchIndex' = Min(currentMatchIndex + 1, Len(matches) - 1)
  /\ nav' = [name |-> "goToNext", before |-> currentMatchIndex, total |-> Len(matches),
             start |-> IF nav.count >= Len(matches) THEN currentMatchIndex ELSE nav.start,
             count |-> IF nav.count >= Len(matches) THEN 1 ELSE nav.count + 1]
  /\ UNCHANGED <<query, isActive, options, searchText>>
SearchGoToNext ==
  /\ IF Len(matches) = 0
       THEN UNCHANGED currentMatchIndex
       ELSE currentMatchIndex' = (currentMatchIndex + 1) % Len(matches)
  /\ nav' = [name |-> "goToNext", before |-> currentMatchIndex, total |-> Len(matches),
             start |-> IF nav.count >= Len(matches) THEN currentMatchIndex ELSE nav.start,
             count |-> IF nav.count >= Len(matches) THEN 1 ELSE nav.count + 1]
  /\ UNCHANGED <<query, isActive, options, searchText>>

\* goToPrevious (lines 93-96)
SearchGoToPrevious ==
  /\ IF Len(matches) = 0
       THEN UNCHANGED currentMatchIndex
       ELSE currentMatchIndex' = (currentMatchIndex - 1 + Len(matches)) % Len(matches)
  /\ NavOther("goToPrevious")
  /\ UNCHANGED <<query, isActive, options, searchText>>

\* the returned setQuery (lines 112-115)
SearchSetQuery(q) ==
  /\ query' = q
  /\ currentMatchIndex' = 0
  /\ NavOther("setQuery")
  /\ UNCHANGED <<isActive, options, searchText>>

\* setOptions (lines 98-101): merge, then back to the first match
SearchSetOptions_KeepsIndex(opts) ==
  /\ options' = [f \in DOMAIN options |->
                   IF f \in DOMAIN opts THEN opts[f] ELSE options[f]]
  /\ UNCHANGED currentMatchIndex
  /\ NavOther("setOptions")
  /\ UNCHANGED <<query, isActive, searchText>>
SearchSetOptions(opts) ==
  /\ options' = [f \in DOMAIN options |->
                   IF f \in DOMAIN opts THEN opts[f] ELSE options[f]]
  /\ currentMatchIndex' = 0
  /\ NavOther("setOptions")
  /\ UNCHANGED <<query, isActive, searchText>>

\* open (line 103)
SearchOpen ==
  /\ isActive' = TRUE
  /\ UNCHANGED <<query, currentMatchIndex, options, searchText>>
  /\ NavOther("open")

\* close (lines 104-108)
SearchClose ==
  /\ isActive' = FALSE
  /\ query' = <<>>
  /\ currentMatchIndex' = 0
  /\ NavOther("close")
  /\ UNCHANGED <<options, searchText>>

\* the component re-renders with another text
SearchTextChange(t) ==
  /\ searchText' = t
  /\ UNCHANGED <<query, currentMatchIndex, isActive, options>>
  /\ NavOther("text")

(***************************************************************************)
(* Calls of the pure functions                                             *)
(***************************************************************************)
VARIABLES
  args,     \* the arguments a function is applied to
  returned  \* what it has returned, or the position of a loop inside it

NoArgs == [fn |-> "none"]
NoResult == [pc |-> "none"]
lvars == <<svars, args, returned>>

\* nothing is being searched or called
LibraryIdle == SearchInit(<<>>) /\ args = NoArgs /\ returned = NoResult

(***************************************************************************)
(* JsonEditor                                                              *)
(***************************************************************************)
\* The value prop enters the model as the input of EInit and EExternalUpdate.
\* The mode ("code", "tree", "split") only selects which panels are mounted and
\* can be switched at any time, so both panels are taken to be reachable.
VARIABLES
  indentation,     \* the indentation prop
  readOnly         \* the readOnly prop

evars == <<indentation, readOnly>>

\* largest number of history entries the editor keeps in the model
\* (JsonEditor passes maxHistory: 100)
EditorMaxHistory == 2
\* number of clock steps explored while the editor is driven
EditorMaxTicks == 3

EditorIdleInit ==
  /\ indentation = 2
  /\ readOnly = FALSE
  /\ LibraryIdle

Init == \E t \in HookValues :
          /\ HistoryInit(t)
          /\ ParserInit(t) /\ schema = "none" /\ validators = "none"
          /\ EditorIdleInit

Set == \E v \in HookValues : HistorySet(v) /\ UNCHANGED <<now, pvars, evars, lvars>>
Undo == HistoryUndo /\ UNCHANGED <<now, pvars, evars, lvars>>
Redo == HistoryRedo /\ UNCHANGED <<now, pvars, evars, lvars>>
Reset == \E v \in HookValues : HistoryReset(v) /\ UNCHANGED <<now, pvars, evars, lvars>>
Tick ==
  /\ ClockTick
  /\ op' = Call("tick", "", FALSE, "", FALSE)
  /\ UNCHANGED <<historyRef, positionRef, lastUpdateTime, maxHistory, rendered, freshSets>>
  /\ UNCHANGED <<pvars, evars, lvars>>

Next == Set \/ Undo \/ Redo \/ Reset \/ Tick

vars == <<hvars, pvars, evars, lvars>>

Mark(name) == op' = Call(name, "", FALSE, "", FALSE)
HistoryIdle == UNCHANGED <<historyRef, positionRef, lastUpdateTime, maxHistory, rendered,
                           freshSets>>

PInit == \E v \in JsonValues \cup {Undefined} :
            /\ ParserInit(stringifyJson(v, 2))
            /\ HistoryInit(stringifyJson(v, 2)) /\ maxHistory = MaxHistoryBound
            /\ EditorIdleInit

PSetText == \E t \in Texts :
              /\ t # text
              /\ ParserSetText(t)
              /\ op' = Call("setText", t, FALSE, "", FALSE)
              /\ HistoryIdle /\ UNCHANGED <<now, evars, lvars>>
PFormat == \E i \in {2, 4} :
              /\ ParserFormat(i)
              /\ Mark("format") /\ HistoryIdle /\ UNCHANGED <<now, evars, lvars>>
PTimerFire == \E tm \in timers :
              /\ ParserTimerFire(tm)
              /\ Mark("timer") /\ HistoryIdle /\ UNCHANGED <<now, evars, lvars>>
PValidatorsResolve == \E run \in inflight :
              /\ ParserValidatorsResolve(run)
              /\ Mark("resolve") /\ HistoryIdle /\ UNCHANGED <<now, evars, lvars>>
PTick == ClockTick /\ Mark("tick") /\ HistoryIdle /\ UNCHANGED <<pvars, evars, lvars>>

PNext == PSetText \/ PFormat \/ PTimerFire \/ PValidatorsResolve \/ PTick


\* the text JsonEditor derives from the value prop (lines 186-189)
ExternalText(ext, indent) ==
  IF ext.k = "str" THEN ext.v ELSE JSONstringify(ext, indent)

JStr(t) == [k |-> "str", v |-> t]
\* the values a parent passes as the value prop
ExternalValues ==
  {Undefined} \cup JsonValues \cup {JStr(JSONstringify(ObjA, 0)), JStr(BadText)}

\* the state after mount: useJsonParser(externalValue), useUndoRedo(parser.text)
\* and the "sync external value" effect have run
EInit == \E externalValue \in ExternalValues :
  /\ indentation \in {2, 4}
  /\ readOnly \in BOOLEAN
  /\ schema = "object" /\ validators = "none"
  /\ LibraryIdle
  /\ LET t == IF externalValue = Undefined THEN ""
              ELSE ExternalText(externalValue, indentation)
     IN /\ ParserInit(t)
        /\ HistoryInit(t) /\ maxHistory = EditorMaxHistory

\* handleTextChange(text): parser.setText(text); history.set(text)
handleTextChange(t) == ParserSetText(t) /\ HistorySet(t)

\* CodeEditor.handleChange / handleKeyDown -> onChange -> handleTextChange
ECodeEdit == \E t \in Texts :
  /\ ~readOnly
  /\ t # text
  /\ handleTextChange(t)
  /\ UNCHANGED <<now, evars, lvars>>

\* a TreeEditor mutation -> onChange(newValue) -> handleTreeChange(newValue)
ETreeEdit == \E newValue \in JsonValues :
  /\ ~readOnly
  /\ handleTextChange(JSONstringify(newValue, indentation))
  /\ UNCHANGED <<now, evars, lvars>>

\* Toolbar onFormat
EFormat ==
  /\ ~readOnly
  /\ ParserFormat(indentation)
  /\ Mark("format") /\ HistoryIdle /\ UNCHANGED <<now, evars, lvars>>

\* Toolbar onUndo: history.undo() only (the button is disabled unless canUndo)
EToolbarUndo ==
  /\ ~readOnly /\ rendered.canUndo
  /\ HistoryUndo
  /\ UNCHANGED <<now, pvars, evars, lvars>>

\* Toolbar onRedo: history.redo() only
EToolbarRedo ==
  /\ ~readOnly /\ rendered.canRedo
  /\ HistoryRedo
  /\ UNCHANGED <<now, pvars, evars, lvars>>

\* Ctrl/Cmd+Z: history.undo(), then parser.setText(history.current) where
\* history is the object captured at the last render
EKeyUndo ==
  /\ HistoryUndo
  /\ IF rendered.current # UndefinedEntry
       THEN ParserSetText(rendered.current) ELSE UNCHANGED pvars
  /\ UNCHANGED <<now, evars, lvars>>

\* Ctrl/Cmd+Shift+Z
EKeyRedo ==
  /\ HistoryRedo
  /\ IF rendered.current # UndefinedEntry
       THEN ParserSetText(rendered.current) ELSE UNCHANGED pvars
  /\ UNCHANGED <<now, evars, lvars>>

\* the parent passes a new value prop: the "sync external value" effect
EExternalUpdate == \E externalValue \in ExternalValues :
  /\ IF externalValue # Undefined /\ ExternalText(externalValue, indentation) # text
       THEN /\ ParserSetText(ExternalText(externalValue, indentation))
            /\ HistoryReset(ExternalText(externalValue, indentation))
       ELSE /\ Mark("external") /\ HistoryIdle /\ UNCHANGED pvars
  /\ UNCHANGED <<now, evars, lvars>>

\* the parent re-renders JsonEditor with another readOnly prop
EReadOnlyChange ==
  /\ readOnly' = ~readOnly
  /\ indentation' = indentation
  /\ Mark("readOnly") /\ HistoryIdle /\ UNCHANGED <<now, pvars, lvars>>

ETimerFire == PTimerFire
ETick == now < StartTime + EditorMaxTicks * TickStep /\ PTick

ENext == \/ ECodeEdit \/ ETreeEdit \/ EFormat \/ EToolbarUndo \/ EToolbarRedo
         \/ EKeyUndo \/ EKeyRedo \/ EExternalUpdate \/ EReadOnlyChange
         \/ ETimerFire \/ ETick

Spec == Init /\ [][Next]_vars
ParserSpec == PInit /\ [][PNext]_vars
EditorSpec == EInit /\ [][ENext]_vars

(***************************************************************************)
(* The search hook and the functions of the library, driven on their own   *)
(***************************************************************************)
\* no editor is mounted around the hook or function under study
ProgramIdle ==
  /\ HistoryInit("") /\ maxHistory = MaxHistoryBound
  /\ ParserInit("") /\ schema = "none" /\ validators = "none"
  /\ indentation = 2 /\ readOnly = FALSE
ProgramIdleStep == UNCHANGED <<hvars, pvars, evars>>

SInit == \E t \in SearchTexts :
  SearchInit(t) /\ args = NoArgs /\ returned = NoResult /\ ProgramIdle
SearchIdleStep == ProgramIdleStep /\ UNCHANGED <<args, returned>>

SNext == \/ SearchGoToNext /\ SearchIdleStep
         \/ SearchGoToPrevious /\ SearchIdleStep
         \/ \E q \in Queries : SearchSetQuery(q) /\ SearchIdleStep
         \/ \E opts \in {[caseSensitive |-> ~options.caseSensitive],
                          [useRegex |-> ~options.useRegex]} :
              SearchSetOptions(opts) /\ SearchIdleStep
         \/ SearchOpen /\ SearchIdleStep
         \/ SearchClose /\ SearchIdleStep
         \/ \E t \in SearchTexts :
              t # searchText /\ SearchTextChange(t) /\ SearchIdleStep

SearchSpec == SInit /\ [][SNext]_vars

\* the matches memo, one evaluation of the loop condition at a time
ScanInit == \E q \in Queries, t \in SearchTexts, o \in OptionSets :
  /\ args = [fn |-> "matches", query |-> q, text |-> t, options |-> o]
  /\ returned = [pc |-> "start"]
  /\ SearchInit(<<>>) /\ ProgramIdle
ScanIdleStep == ProgramIdleStep /\ UNCHANGED <<svars, args>>

\* lines 53-61: the guard, new RegExp and split
ScanBegin ==
  /\ returned.pc = "start"
  /\ LET regex == NewRegExp(PatternOf(args.query, args.options))
     IN returned' =
          IF args.query = <<>> \/ args.text = <<>> \/ ~regex.ok
            THEN [pc |-> "done", matches |-> <<>>]
            ELSE [pc |-> "loop", scan |-> ScanStart]
  /\ ScanIdleStep

\* lines 63-79, and the return of line 81 when the for loop is over
ScanLoop ==
  /\ returned.pc = "loop"
  /\ LET regex == NewRegExp(PatternOf(args.query, args.options))
         lines == SplitLines(args.text)
     IN returned' =
          IF ScanDone(returned.scan, lines)
            THEN [pc |-> "done", matches |-> returned.scan.results]
            ELSE [pc |-> "loop",
                  scan |-> ScanStep(returned.scan, regex.items,
                                    ~args.options.caseSensitive, lines)]
  /\ ScanIdleStep

ScanNext == ScanBegin \/ ScanLoop

ScanSpec == ScanInit /\ [][ScanNext]_vars /\ WF_vars(ScanNext)

(***************************************************************************)
(* Path engine                                                             *)
(***************************************************************************)
\* Documents handled by the path engine, the tree builder and the validator
\* live in a heap, so that "the same object" and "a copy" can be told apart:
\* a container is a cell of the heap (a sequence, cell ids are positions) and
\* is referred to by Ref(id); object keys are character sequences.
JNull == [k |-> "null"]
JBool(b) == [k |-> "bool", v |-> b]
JArr(items) == [k |-> "arr", v |-> items]
Ref(id) == [k |-> "ref", id |-> id]
KV(key, val) == [key |-> key, val |-> val]

Alloc(h, cell) == [h |-> Append(h, cell), v |-> Ref(Len(h) + 1)]

\* [...current] or { ...current } filled in as cell: a new container, current
\* itself is left as it was
Copy_InPlace(h, current, cell) == [h |-> [h EXCEPT ![current.id] = cell], v |-> current]
Copy(h, current, cell) == Alloc(h, cell)

\* the object graph of a document: every container gets a cell of its own
RECURSIVE Load(_, _)
RECURSIVE LoadItems(_, _, _)
LoadItems(h, items, i) ==
  IF i > Len(items) THEN [h |-> h, v |-> <<>>]
  ELSE LET entry == items[i]
           isPair == "key" \in DOMAIN entry
           first == Load(h, IF isPair THEN entry.val ELSE entry)
           rest == LoadItems(first.h, items, i + 1)
       IN [h |-> rest.h,
           v |-> <<IF isPair THEN KV(entry.key, first.v) ELSE first.v>> \o rest.v]
Load(h, value) ==
  IF value.k \in {"obj", "arr"}
    THEN LET children == LoadItems(h, value.v, 1)
         IN Alloc(children.h, [k |-> value.k, v |-> children.v])
    ELSE [h |-> h, v |-> value]

\* the document a reference stands for
RECURSIVE Deref(_, _)
Deref(h, x) ==
  IF x.k # "ref" THEN x
  ELSE LET cell == h[x.id]
       IN [k |-> cell.k,
           v |-> [i \in 1..Len(cell.v) |->
                    IF cell.k = "obj"
                      THEN KV(cell.v[i].key, Deref(h, cell.v[i].val))
                      ELSE Deref(h, cell.v[i])]]

isArray(h, x) == x.k = "ref" /\ h[x.id].k = "arr"
\* typeof x === 'object' && x !== null, for a non-array
isObject(h, x) == x.k = "ref" /\ h[x.id].k = "obj"

IsDigit(c) == \E d \in 1..10 : Digits[d] = c
DigitVal(c) == (CHOOSE d \in 1..10 : Digits[d] = c) - 1
\* /^\d+$/.test(segment)
AllDigits(seg) == seg # <<>> /\ \A i \in 1..Len(seg) : IsDigit(seg[i])

\* parseInt(segment, 10): the number written by the leading digits, NaN when
\* there is none
NaN == -1
RECURSIVE ParseDigits(_, _, _)
ParseDigits(seg, i, acc) ==
  IF i > Len(seg) \/ ~IsDigit(seg[i]) THEN acc
  ELSE ParseDigits(seg, i + 1, acc * 10 + DigitVal(seg[i]))
parseInt(seg) ==
  IF seg = <<>> \/ ~IsDigit(seg[1]) THEN NaN ELSE ParseDigits(seg, 1, 0)

\* array[index]; undefined outside the array
ArrGet(items, index) ==
  IF index >= 0 /\ index < Len(items) THEN items[index + 1] ELSE Undefined
\* a copy of items with array[index] = val: slots between the old end and
\* index are holes (read as undefined); a NaN index names no element
ArrSet_Appends(items, index, val) == Append(items, val)
ArrSet(items, index, val) ==
  IF index < 0 THEN items
  ELSE [i \in 1..Max(Len(items), index + 1) |->
          IF i = index + 1 THEN val
          ELSE IF i <= Len(items) THEN items[i] ELSE Undefined]
\* array.filter((_, i) => i !== index)
ArrFilterOut_LeavesHole(items, index) ==
  [i \in 1..Len(items) |-> IF i = index + 1 THEN Undefined ELSE items[i]]
ArrFilterOut(items, index) ==
  IF index >= 0 /\ index < Len(items)
    THEN SubSeq(items, 1, index) \o SubSeq(items, index + 2, Len(items))
    ELSE items

HasKey(pairs, key) == \E i \in 1..Len(pairs) : pairs[i].key = key
\* object[key]
ObjGet(pairs, key) ==
  IF HasKey(pairs, key)
    THEN pairs[CHOOSE i \in 1..Len(pairs) : pairs[i].key = key].val
    ELSE Undefined
\* { ...object, [key]: val }
ObjSet(pairs, key, val) ==
  IF HasKey(pairs, key)
    THEN [i \in 1..Len(pairs) |->
            IF pairs[i].key = key THEN KV(key, val) ELSE pairs[i]]
    ELSE Append(pairs, KV(key, val))
\* const { [key]: _, ...rest } = object
ObjRest(pairs, key) == SelectSeq(pairs, LAMBDA p : p.key # key)

\* path.replace(/^\$\.?/, '')
StripRoot(p) ==
  IF p # <<>> /\ p[1] = "$"
    THEN IF Len(p) >= 2 /\ p[2] = "." THEN SubSeq(p, 3, Len(p))
         ELSE SubSeq(p, 2, Len(p))
    ELSE p

\* the position of the ']' that closes "[digits" opened at i, or 0
IndexBracketEnd(s, i) ==
  IF s[i] # "[" THEN 0
  ELSE LET ends == {j \in (i + 2)..Len(s) :
                      s[j] = "]" /\ \A m \in (i + 1)..(j - 1) : IsDigit(s[m])}
       IN IF ends = {} THEN 0 ELSE CHOOSE j \in ends : TRUE

\* normalized.replace(/\[(\d+)\]/g, '.$1')
RECURSIVE ReplaceIndexBrackets(_, _)
ReplaceIndexBrackets(s, i) ==
  IF i > Len(s) THEN <<>>
  ELSE LET j == IndexBracketEnd(s, i)
       IN IF j = 0 THEN <<s[i]>> \o ReplaceIndexBrackets(s, i + 1)
          ELSE <<".">> \o SubSeq(s, i + 1, j - 1) \o ReplaceIndexBrackets(s, j + 1)

\* the position of the ']' that closes [q...q opened at i, or 0
QuotedBracketEnd(s, i, q) ==
  IF ~(i + 4 <= Len(s) /\ s[i] = "[" /\ s[i + 1] = q /\ s[i + 2] # q) THEN 0
  ELSE LET closing == {j \in (i + 3)..Len(s) : s[j] = q}
       IN IF closing = {} THEN 0
          ELSE LET j == CHOOSE j \in closing : \A o \in closing : j <= o
               IN IF j + 1 <= Len(s) /\ s[j + 1] = "]" THEN j + 1 ELSE 0

\* normalized.replace(/\["([^"]+)"\]/g, '.$1'), and the same with '
RECURSIVE ReplaceQuotedBrackets(_, _, _)
ReplaceQuotedBrackets(s, i, q) ==
  IF i > Len(s) THEN <<>>
  ELSE LET j == QuotedBracketEnd(s, i, q)
       IN IF j = 0 THEN <<s[i]>> \o ReplaceQuotedBrackets(s, i + 1, q)
          ELSE <<".">> \o SubSeq(s, i + 2, j - 2) \o ReplaceQuotedBrackets(s, j + 1, q)

\* normalized.split('.').filter((s) => s !== '')
RECURSIVE SplitSegments(_)
SplitSegments(s) ==
  IF s = <<>> THEN <<>>
  ELSE IF \A i \in 1..Len(s) : s[i] # "." THEN <<s>>
  ELSE LET i == CHOOSE i \in 1..Len(s) :
                   s[i] = "." /\ \A j \in 1..(i - 1) : s[j] # "."
       IN (IF i = 1 THEN <<>> ELSE <<SubSeq(s, 1, i - 1)>>)
          \o SplitSegments(SubSeq(s, i + 1, Len(s)))

parsePath(path) ==
  SplitSegments(
    ReplaceQuotedBrackets(
      ReplaceQuotedBrackets(ReplaceIndexBrackets(StripRoot(path), 1), 1, "\""),
      1, "'"))

IsRootPath(path) == path = <<"$">> \/ path = <<>>

\* the for loop of getByPath, from segment i on
RECURSIVE GetBySegments(_, _, _, _)
GetBySegments(h, current, segments, i) ==
  IF i > Len(segments) THEN current
  ELSE IF current.k \in {"null", "undefined"} THEN Undefined
  ELSE IF isArray(h, current)
         THEN LET index == parseInt(segments[i])
              IN IF index = NaN THEN Undefined
                 ELSE GetBySegments(h, ArrGet(h[current.id].v, index), segments, i + 1)
  ELSE IF isObject(h, current)
         THEN GetBySegments(h, ObjGet(h[current.id].v, segments[i]), segments, i + 1)
  ELSE Undefined

getByPath(h, obj, path) ==
  IF IsRootPath(path) THEN obj ELSE GetBySegments(h, obj, parsePath(path), 1)

\* setBySegments; index counts from 0 as in the source.  The result is the
\* heap after the call and the value returned.
RECURSIVE setBySegments(_, _, _, _, _)
setBySegments(h, current, segments, index, value) ==
  IF index = Len(segments) THEN [h |-> h, v |-> value]
  ELSE LET segment == segments[index + 1] IN
    IF isArray(h, current)
      THEN LET arrIndex == parseInt(segment)
               items == h[current.id].v
               sub == setBySegments(h, ArrGet(items, arrIndex), segments, index + 1, value)
           IN Copy(sub.h, current, [k |-> "arr", v |-> ArrSet(items, arrIndex, sub.v)])
    ELSE IF isObject(h, current)
      THEN LET pairs == h[current.id].v
               sub == setBySegments(h, ObjGet(pairs, segment), segments, index + 1, value)
           IN Copy(sub.h, current, [k |-> "obj", v |-> ObjSet(pairs, segment, sub.v)])
    ELSE LET isArrayIndex == index + 1 < Len(segments) /\ AllDigits(segments[index + 2])
             container == Alloc(h, [k |-> IF isArrayIndex THEN "arr" ELSE "obj", v |-> <<>>])
             sub == setBySegments(container.h, container.v, segments, index + 1, value)
         IN Alloc(sub.h, [k |-> "obj", v |-> <<KV(segment, sub.v)>>])

setByPath(h, obj, path, value) ==
  IF IsRootPath(path) THEN [h |-> h, v |-> value]
  ELSE setBySegments(h, obj, parsePath(path), 0, value)

\* deleteBySegments; every path of the model names at least one segment
RECURSIVE deleteBySegments(_, _, _, _)
deleteBySegments(h, current, segments, index) ==
  LET segment == segments[index + 1] IN
  IF index = Len(segments) - 1
    THEN IF isArray(h, current)
           THEN Copy(h, current, [k |-> "arr",
                          v |-> ArrFilterOut(h[current.id].v, parseInt(segment))])
         ELSE IF isObject(h, current)
           THEN Copy(h, current, [k |-> "obj", v |-> ObjRest(h[current.id].v, segment)])
         ELSE [h |-> h, v |-> current]
  ELSE IF isArray(h, current)
    THEN LET arrIndex == parseInt(segment)
             items == h[current.id].v
             sub == deleteBySegments(h, ArrGet(items, arrIndex), segments, index + 1)
         IN Copy(sub.h, current, [k |-> "arr", v |-> ArrSet(items, arrIndex, sub.v)])
  ELSE IF isObject(h, current)
    THEN LET pairs == h[current.id].v
             sub == deleteBySegments(h, ObjGet(pairs, segment), segments, index + 1)
         IN Copy(sub.h, current, [k |-> "obj", v |-> ObjSet(pairs, segment, sub.v)])
  ELSE [h |-> h, v |-> current]

deleteByPath(h, obj, path) ==
  IF IsRootPath(path) THEN [h |-> h, v |-> Undefined]
  ELSE deleteBySegments(h, obj, parsePath(path), 0)

\* largest number of steps (.key, [n], ["key"]) of a path
MaxPathLen == 3

KeyA == <<"a">>
KeyB == <<"b">>
\* { a: { b: 1 }, b: [1, [2], { a: 3 }] }
Doc1 == JObj(<<KV(KeyA, JObj(<<KV(KeyB, JNum(1))>>)),
               KV(KeyB, JArr(<<JNum(1), JArr(<<JNum(2)>>), JObj(<<KV(KeyA, JNum(3))>>)>>))>>)
\* [{ a: 1 }, [2, 3]]
Doc2 == JArr(<<JObj(<<KV(KeyA, JNum(1))>>), JArr(<<JNum(2), JNum(3)>>)>>)
PathDocs == {Doc1, Doc2, JObj(<<>>), JNum(5), JNull}
\* the values written: 9 and [8]
PathNewValues == {JNum(9), JArr(<<JNum(8)>>)}

PathSteps == {<<".", "a">>, <<".", "b">>, <<".", "x">>, <<"[", "0", "]">>, <<".", "1">>,
              <<"[", "\"", "b", "\"", "]">>}
RECURSIVE PathsOfLen(_)
PathsOfLen(n) ==
  IF n = 0 THEN {<<"$">>}
  ELSE {p \o t : p \in PathsOfLen(n - 1), t \in PathSteps}
Paths == UNION {PathsOfLen(n) : n \in 0..MaxPathLen}

PathInit == \E v \in PathDocs, p \in Paths, x \in PathNewValues :
  /\ args = [fn |-> "path", v |-> v, path |-> p, x |-> x]
  /\ returned = [pc |-> "start"]
  /\ SearchInit(<<>>) /\ ProgramIdle
LibraryIdleStep == ProgramIdleStep /\ UNCHANGED <<svars, args>>

\* the caller's objects: the document and the new value
Loaded ==
  LET doc == Load(<<>>, args.v)
      new == Load(doc.h, args.x)
  IN [h |-> new.h, obj |-> doc.v, value |-> new.v]

CallGetByPath ==
  /\ args.fn = "path"
  /\ returned' = [pc |-> "getByPath", before |-> Loaded.h, obj |-> Loaded.obj,
                  value |-> Loaded.value, h |-> Loaded.h,
                  out |-> getByPath(Loaded.h, Loaded.obj, args.path)]
  /\ LibraryIdleStep

CallSetByPath ==
  /\ args.fn = "path"
  /\ LET r == setByPath(Loaded.h, Loaded.obj, args.path, Loaded.value)
     IN returned' = [pc |-> "setByPath", before |-> Loaded.h, obj |-> Loaded.obj,
                     value |-> Loaded.value, h |-> r.h, out |-> r.v]
  /\ LibraryIdleStep

CallDeleteByPath ==
  /\ args.fn = "path"
  /\ LET r == deleteByPath(Loaded.h, Loaded.obj, args.path)
     IN returned' = [pc |-> "deleteByPath", before |-> Loaded.h, obj |-> Loaded.obj,
                     value |-> Loaded.value, h |-> r.h, out |-> r.v]
  /\ LibraryIdleStep

PathNext == CallGetByPath \/ CallSetByPath \/ CallDeleteByPath

PathSpec == PathInit /\ [][PathNext]_vars

(***************************************************************************)
(* TreeEditor: buildTree                                                   *)
(***************************************************************************)
\* the decimal digits of a template literal ${i}
RECURSIVE NumStr(_)
NumStr(i) ==
  IF i < 10 THEN <<Digits[i + 1]>>
  ELSE NumStr(i \div 10) \o <<Digits[(i % 10) + 1]>>

\* getType of the tree editor
getType(h, value) ==
  CASE value.k = "null" -> "null"
    [] isArray(h, value) -> "array"
    [] value.k = "str" -> "string"
    [] value.k = "num" -> "number"
    [] value.k = "bool" -> "boolean"
    [] isObject(h, value) -> "object"
    [] OTHER -> "string"

\* buildTree returned null
NoNode == [type |-> "none"]

\* node.childCount = keys.length / arr.length
ChildCountOf_OnlyWhenExpanded(entries, expanded) == IF expanded THEN Len(entries) ELSE 0
ChildCountOf(entries, expanded) == Len(entries)

RECURSIVE buildTree(_, _, _, _, _, _)
buildTree(h, value, path, key, depth, expandedPaths) ==
  IF value = Undefined THEN NoNode
  ELSE LET type == getType(h, value)
           expanded == path \in expandedPaths
           node == [id |-> path, key |-> key, value |-> value, type |-> type,
                    path |-> path, depth |-> depth, expanded |-> expanded,
                    children |-> <<>>, childCount |-> 0]
       IN IF type = "object"
            THEN LET entries == h[value.id].v
                     built == [i \in 1..Len(entries) |->
                                buildTree(h, entries[i].val,
                                          path \o <<".">> \o entries[i].key,
                                          entries[i].key, depth + 1, expandedPaths)]
                 IN [node EXCEPT
                       !.childCount = ChildCountOf(entries, expanded),
                       !.children = IF expanded
                                      THEN SelectSeq(built, LAMBDA c : c # NoNode)
                                      ELSE <<>>]
          ELSE IF type = "array"
            THEN LET entries == h[value.id].v
                     built == [i \in 1..Len(entries) |->
                                buildTree(h, entries[i],
                                          path \o <<"[">> \o NumStr(i - 1) \o <<"]">>,
                                          i - 1, depth + 1, expandedPaths)]
                 IN [node EXCEPT
                       !.childCount = ChildCountOf(entries, expanded),
                       !.children = IF expanded
                                      THEN SelectSeq(built, LAMBDA c : c # NoNode)
                                      ELSE <<>>]
          ELSE node

\* the documents shown in the tree, and the paths a caller may hold expanded
TreeDocs == {Doc1, Doc2, JObj(<<>>), JNum(5), Undefined}
TreePaths == {<<"$">>, <<"$", ".", "a">>, <<"$", ".", "b">>,
              <<"$", ".", "b", "[", "1", "]">>, <<"$", ".", "b", "[", "2", "]">>,
              <<"$", "[", "0", "]">>, <<"$", "[", "1", "]">>}

TreeInit == \E v \in TreeDocs, e \in SUBSET TreePaths :
  /\ args = [fn |-> "tree", v |-> v, expandedPaths |-> e]
  /\ returned = [pc |-> "start"]
  /\ SearchInit(<<>>) /\ ProgramIdle

\* the tree memo: buildTree(value, '$', 'root', 0, expandedPaths)
TreeOf(a) ==
  LET doc == Load(<<>>, a.v)
  IN [pc |-> "buildTree", h |-> doc.h,
      tree |-> buildTree(doc.h, doc.v, <<"$">>, "root", 0, a.expandedPaths)]

CallBuildTree ==
  /\ args.fn = "tree"
  /\ returned.pc = "start"
  /\ returned' = TreeOf(args)
  /\ ProgramIdleStep /\ UNCHANGED <<svars, args>>

\* the ids of the nodes on screen
RECURSIVE NodeIds(_)
NodeIds(node) ==
  IF node = NoNode THEN {}
  ELSE {node.id} \cup UNION {NodeIds(node.children[i]) : i \in 1..Len(node.children)}

\* handleToggle(id) of a node on screen, and the render that follows
TreeToggle ==
  /\ args.fn = "tree"
  /\ returned.pc = "buildTree"
  /\ \E id \in NodeIds(returned.tree) :
       LET next == IF id \in args.expandedPaths
                     THEN args.expandedPaths \ {id}
                     ELSE args.expandedPaths \cup {id}
       IN /\ args' = [args EXCEPT !.expandedPaths = next]
          /\ returned' = TreeOf(args')
  /\ ProgramIdleStep /\ UNCHANGED svars

TreeNext == CallBuildTree \/ TreeToggle

TreeSpec == TreeInit /\ [][TreeNext]_vars

(***************************************************************************)
(* validateSchema                                                          *)
(***************************************************************************)
\* The validator reads documents without comparing references, so it works
\* on plain values: keys, strings and error paths are strings.  A number
\* that is not an integer is JReal(n), n odd, standing for n / 2.  A schema
\* is a record that has a field for each keyword present; `type` is
\* TypeName(t) for a string and TypeUnion(ts) for an array.
JReal(twice) == [k |-> "real", v2 |-> twice]
TypeName(t) == [one |-> t]
TypeUnion(ts) == [any |-> ts]
makeError(path, schemaKeyword) == [path |-> path, schemaKeyword |-> schemaKeyword]

Has(sch, keyword) == keyword \in DOMAIN sch
\* twice the number, so that halves compare as integers
Twice(value) == IF value.k = "num" THEN 2 * value.v ELSE value.v2
SeqIncludes(s, e) == \E i \in 1..Len(s) : s[i] = e
\* obj.hasOwnProperty-style lookup used for `req in obj`
HasProperty(pairs, key) == \E i \in 1..Len(pairs) : pairs[i].key = key

\* Array.isArray(schema.type) ? schema.type : [schema.type]
allowedTypes(type) == IF "any" \in DOMAIN type THEN type.any ELSE <<type.one>>
\* the typeMatches expression of lines 33-35
typeMatches(actualType, allowed) ==
  \/ SeqIncludes(allowed, actualType)
  \/ actualType = "integer" /\ SeqIncludes(allowed, "number")

RECURSIVE validateSchemaAt(_, _, _)
RECURSIVE ItemErrors(_, _, _, _)
RECURSIVE PropertyErrors(_, _, _, _)

\* value.forEach((item, index) => validateSchema(item, schema.items, path[index]))
ItemErrors(items, itemSchema, path, i) ==
  IF i > Len(items) THEN <<>>
  ELSE validateSchemaAt(items[i], itemSchema, path \o "[" \o Digits[i] \o "]")
       \o ItemErrors(items, itemSchema, path, i + 1)

\* the loop over the keys of lines 232-247
PropertyErrors(pairs, sch, path, i) ==
  IF i > Len(pairs) THEN <<>>
  ELSE LET key == pairs[i].key
       IN (IF key \in DOMAIN sch.properties
             THEN validateSchemaAt(pairs[i].val, sch.properties[key],
                                   path \o "." \o key)
           ELSE IF Has(sch, "additionalProperties") /\ sch.additionalProperties = FALSE
             THEN <<makeError(path \o "." \o key, "additionalProperties")>>
           ELSE <<>>)
          \o PropertyErrors(pairs, sch, path, i + 1)

\* validateSchema(value, schema, path).errors; the `pattern` keyword is not
\* used by the schemas of the model
validateSchemaAt(value, sch, path) ==
  LET If(cond, keyword) == IF cond THEN <<makeError(path, keyword)>> ELSE <<>>
  IN
  IF value = Undefined \/ value = JNull
    THEN If(Has(sch, "type") /\ sch.type # TypeName("null"), "type")
    ELSE
      \* type
      If(Has(sch, "type")
           /\ ~typeMatches(getJsonType(value), allowedTypes(sch.type)), "type")
      \* enum
      \o If(Has(sch, "enum") /\ ~SeqIncludes(sch.enum, value), "enum")
      \* string
      \o (IF value.k = "str"
            THEN If(Has(sch, "minLength") /\ Len(value.v) < sch.minLength, "minLength")
                 \o If(Has(sch, "maxLength") /\ Len(value.v) > sch.maxLength,
                       "maxLength")
            ELSE <<>>)
      \* number
      \o (IF value.k \in {"num", "real"}
            THEN If(Has(sch, "minimum") /\ Twice(value) < 2 * sch.minimum, "minimum")
                 \o If(Has(sch, "maximum") /\ Twice(value) > 2 * sch.maximum,
                       "maximum")
                 \o If(Has(sch, "exclusiveMinimum")
                         /\ Twice(value) <= 2 * sch.exclusiveMinimum, "exclusiveMinimum")
                 \o If(Has(sch, "exclusiveMaximum")
                         /\ Twice(value) >= 2 * sch.exclusiveMaximum, "exclusiveMaximum")
                 \o If(Has(sch, "multipleOf")
                         /\ Twice(value) % (2 * sch.multipleOf) # 0, "multipleOf")
            ELSE <<>>)
      \* array
      \o (IF value.k = "arr"
            THEN If(Has(sch, "minItems") /\ Len(value.v) < sch.minItems, "minItems")
                 \o If(Has(sch, "maxItems") /\ Len(value.v) > sch.maxItems, "maxItems")
                 \o If(Has(sch, "uniqueItems") /\ sch.uniqueItems
                         /\ Cardinality({value.v[i] : i \in 1..Len(value.v)}) # Len(value.v),
                       "uniqueItems")
                 \o (IF Has(sch, "items")
                       THEN ItemErrors(value.v, sch.items, path, 1) ELSE <<>>)
            ELSE <<>>)
      \* object
      \o (IF value.k = "obj"
            THEN (IF Has(sch, "required")
                    THEN SelectSeq([i \in 1..Len(sch.required) |->
                                      IF HasProperty(value.v, sch.required[i])
                                        THEN [path |-> path, schemaKeyword |-> "none"]
                                        ELSE makeError(path, "required")],
                                   LAMBDA e : e.schemaKeyword # "none")
                    ELSE <<>>)
                 \o If(Has(sch, "minProperties") /\ Len(value.v) < sch.minProperties,
                       "minProperties")
                 \o If(Has(sch, "maxProperties") /\ Len(value.v) > sch.maxProperties,
                       "maxProperties")
                 \o (IF Has(sch, "properties")
                       THEN PropertyErrors(value.v, sch, path, 1) ELSE <<>>)
            ELSE <<>>)

\* the values and schemas the validator is applied to
ValidatorValues ==
  {Undefined, JNull, JNum(1), JNum(4), JReal(3), JStr("ab"), JBool(TRUE),
   JArr(<<>>), JArr(<<JNum(1), JStr("ab")>>),
   JObj(<<>>), ObjA, JObj(<<KV("a", JStr("ab")), KV("b", JNull)>>)}
TypeNames == {"string", "number", "integer", "boolean", "null", "object", "array"}
TypeDecls ==
  {TypeName(t) : t \in TypeNames}
  \cup {TypeUnion(<<"string", "number">>), TypeUnion(<<"string", "null">>),
        TypeUnion(<<"null">>), TypeUnion(<<"array", "object">>)}
Schemas ==
  {[type |-> t] : t \in TypeDecls}
  \cup {[enum |-> <<JNum(1), JStr("ab")>>],
        [type |-> TypeName("string"), enum |-> <<JNum(1)>>, minLength |-> 3],
        [type |-> TypeName("number"), minimum |-> 2, multipleOf |-> 2],
        [type |-> TypeName("array"), minItems |-> 1, uniqueItems |-> TRUE,
         items |-> [type |-> TypeName("integer")]],
        [type |-> TypeName("object"), additionalProperties |-> FALSE,
         properties |-> [a |-> [type |-> TypeName("integer")]]],
        [type |-> TypeName("object"), additionalProperties |-> FALSE],
        [properties |-> [a |-> [type |-> TypeName("string"), maxLength |-> 1]],
         required |-> <<"b", "c">>, minProperties |-> 2]}

ValidatorInit == \E v \in ValidatorValues, s \in Schemas :
  /\ args = [fn |-> "validateSchema", value |-> v, schema |-> s]
  /\ returned = [pc |-> "start"]
  /\ SearchInit(<<>>) /\ ProgramIdle

\* validateSchema(value, schema): { valid: errors.length === 0, errors }
CallValidateSchema ==
  /\ args.fn = "validateSchema"
  /\ returned.pc = "start"
  /\ LET errors == validateSchemaAt(args.value, args.schema, "$")
     IN returned' = [pc |-> "validateSchema", valid |-> errors = <<>>, errors |-> errors]
  /\ ProgramIdleStep /\ UNCHANGED <<svars, args>>

ValidatorSpec == ValidatorInit /\ [][CallValidateSchema]_vars

(***************************************************************************)
(* core/parser.ts: getLineColFromOffset and getOffsetFromLineCol           *)
(* A text is a sequence of characters; text[i] of the code is t[i + 1].    *)
(***************************************************************************)
\* length of the longest text converted
MaxTextLen == 4

LineColTexts == UNION {[1..n -> {"a", "\n"}] : n \in 0..MaxTextLen}

RECURSIVE LineColLoop(_, _, _, _, _)
\* for (let i = 0; i < offset && i < text.length; i++)
\*   if (text[i] === '\n') { line++; lastNewline = i; }
LineColLoop(t, offset, i, line, lastNewline) ==
  IF i < offset /\ i < Len(t)
    THEN IF t[i + 1] = "\n"
           THEN LineColLoop(t, offset, i + 1, line + 1, i)
           ELSE LineColLoop(t, offset, i + 1, line, lastNewline)
    ELSE [line |-> line, column |-> offset - lastNewline]

getLineColFromOffset_ZeroBasedColumn(t, offset) ==
  LET lc == LineColLoop(t, offset, 0, 1, -1)
  IN [line |-> lc.line, column |-> lc.column - 1]

getLineColFromOffset(t, offset) == LineColLoop(t, offset, 0, 1, -1)

RECURSIVE OffsetLoop(_, _, _, _, _)
\* for (let i = 0; i < text.length; i++)
\*   if (currentLine === line) return i + column - 1;
\*   if (text[i] === '\n') currentLine++;
\* return text.length
OffsetLoop(t, line, column, i, currentLine) ==
  IF i < Len(t)
    THEN IF currentLine = line
           THEN i + column - 1
           ELSE OffsetLoop(t, line, column, i + 1,
                           IF t[i + 1] = "\n" THEN currentLine + 1 ELSE currentLine)
    ELSE Len(t)

getOffsetFromLineCol(t, line, column) == OffsetLoop(t, line, column, 0, 1)

LineColInit == \E t \in LineColTexts, offset \in 0..MaxTextLen :
  /\ offset <= Len(t)
  /\ args = [fn |-> "lineCol", text |-> t, offset |-> offset]
  /\ returned = [pc |-> "start"]
  /\ SearchInit(<<>>) /\ ProgramIdle

CallGetLineColFromOffset ==
  /\ args.fn = "lineCol"
  /\ returned.pc = "start"
  /\ LET lc == getLineColFromOffset(args.text, args.offset)
     IN returned' = [pc |-> "getLineColFromOffset", line |-> lc.line, column |-> lc.column]
  /\ ProgramIdleStep /\ UNCHANGED <<svars, args>>

\* getOffsetFromLineCol(text, line, column) on the position just returned
CallGetOffsetFromLineCol ==
  /\ args.fn = "lineCol"
  /\ returned.pc = "getLineColFromOffset"
  /\ returned' = [pc |-> "getOffsetFromLineCol",
                  line |-> returned.line, column |-> returned.column,
                  offset |-> getOffsetFromLineCol(args.text, returned.line, returned.column)]
  /\ ProgramIdleStep /\ UNCHANGED <<svars, args>>

LineColNext == CallGetLineColFromOffset \/ CallGetOffsetFromLineCol

LineColSpec == LineColInit /\ [][LineColNext]_vars

(***************************************************************************)
(* JSON.stringify and JSON.parse on texts that are character sequences,    *)
(* for the values the tree editor hands to handleTreeChange: the value is  *)
(* an object graph in the heap h, the text a sequence of characters.       *)
(* Strings and keys of the model hold no character that needs an escape.   *)
(***************************************************************************)
RECURSIVE Gap(_)
\* the indentation of one line: n spaces
Gap(n) == IF n <= 0 THEN <<>> ELSE <<" ">> \o Gap(n - 1)

Quoted(chars) == <<"\"">> \o chars \o <<"\"">>

RECURSIVE Stringify(_, _, _, _)
RECURSIVE StringifyEntries(_, _, _, _, _, _)
\* the entries of a container from entry i on, each on a line of its own when
\* indent > 0; an object member whose value is undefined is left out, an
\* undefined array element is written as null
StringifyEntries(h, cell, indent, depth, i, first) ==
  IF i > Len(cell.v) THEN <<>>
  ELSE LET entry == cell.v[i]
           val == IF cell.k = "obj" THEN entry.val ELSE entry
           skipped == cell.k = "obj" /\ val = Undefined
           lead == (IF first THEN <<>> ELSE <<",">>)
                     \o (IF indent > 0 THEN <<"\n">> \o Gap(indent * (depth + 1)) ELSE <<>>)
           name == IF cell.k = "obj"
                     THEN Quoted(entry.key) \o <<":">> \o (IF indent > 0 THEN <<" ">> ELSE <<>>)
                     ELSE <<>>
           piece == IF val = Undefined THEN <<"n", "u", "l", "l">>
                    ELSE Stringify(h, val, indent, depth + 1)
       IN IF skipped THEN StringifyEntries(h, cell, indent, depth, i + 1, first)
          ELSE lead \o name \o piece \o StringifyEntries(h, cell, indent, depth, i + 1, FALSE)

\* JSON.stringify(value, null, indent) of a value that is not undefined
Stringify(h, x, indent, depth) ==
  CASE x.k = "null" -> <<"n", "u", "l", "l">>
    [] x.k = "bool" -> IF x.v THEN <<"t", "r", "u", "e">> ELSE <<"f", "a", "l", "s", "e">>
    [] x.k = "num" -> NumStr(x.v)
    [] x.k = "str" -> Quoted(x.v)
    [] x.k = "ref" ->
         LET cell == h[x.id]
             open == IF cell.k = "obj" THEN "{" ELSE "["
             close == IF cell.k = "obj" THEN "}" ELSE "]"
             inner == StringifyEntries(h, cell, indent, depth, 1, TRUE)
         IN IF inner = <<>> THEN <<open, close>>
            ELSE <<open>> \o inner
                   \o (IF indent > 0 THEN <<"\n">> \o Gap(indent * depth) ELSE <<>>)
                   \o <<close>>

\* JSON.stringify(value, null, indent): undefined for undefined (isString is
\* FALSE), a text otherwise
JSONstringifyValue(h, x, indent) ==
  IF x = Undefined THEN [isString |-> FALSE, chars |-> <<>>]
  ELSE [isString |-> TRUE, chars |-> Stringify(h, x, indent, 0)]

IsSpace(c) == c \in {" ", "\n", "\t"}

RECURSIVE SkipSpace(_, _)
SkipSpace(s, i) == IF i <= Len(s) /\ IsSpace(s[i]) THEN SkipSpace(s, i + 1) ELSE i

\* s holds the word at position i
HasWord(s, i, word) == i + Len(word) - 1 <= Len(s) /\ SubSeq(s, i, i + Len(word) - 1) = word

\* the position of the first quote at or after i, 0 when there is none
NextQuote(s, i) ==
  LET quotes == {j \in i..Len(s) : s[j] = "\""}
  IN IF quotes = {} THEN 0 ELSE CHOOSE j \in quotes : \A o \in quotes : j <= o

RECURSIVE DigitsEnd(_, _)
DigitsEnd(s, i) == IF i <= Len(s) /\ IsDigit(s[i]) THEN DigitsEnd(s, i + 1) ELSE i

ParseFailed == [ok |-> FALSE]
Parsed(v, next) == [ok |-> TRUE, v |-> v, next |-> next]

RECURSIVE ParseValue(_, _)
RECURSIVE ParseElements(_, _, _)
RECURSIVE ParseMembers(_, _, _)
\* the elements of an array, the first one starting at i
ParseElements(s, i, acc) ==
  LET r == ParseValue(s, i)
  IN IF ~r.ok THEN ParseFailed
     ELSE LET j == SkipSpace(s, r.next)
          IN IF j > Len(s) THEN ParseFailed
             ELSE IF s[j] = "," THEN ParseElements(s, SkipSpace(s, j + 1), Append(acc, r.v))
             ELSE IF s[j] = "]" THEN Parsed(JArr(Append(acc, r.v)), j + 1)
             ELSE ParseFailed

\* the members of an object, the first key starting at i
ParseMembers(s, i, acc) ==
  IF i > Len(s) \/ s[i] # "\"" THEN ParseFailed
  ELSE LET q == NextQuote(s, i + 1)
       IN IF q = 0 THEN ParseFailed
          ELSE LET key == SubSeq(s, i + 1, q - 1)
                   c == SkipSpace(s, q + 1)
               IN IF c > Len(s) \/ s[c] # ":" THEN ParseFailed
                  ELSE LET r == ParseValue(s, SkipSpace(s, c + 1))
                       IN IF ~r.ok THEN ParseFailed
                          ELSE LET j == SkipSpace(s, r.next)
                                   members == ObjSet(acc, key, r.v)
                               IN IF j > Len(s) THEN ParseFailed
                                  ELSE IF s[j] = ","
                                    THEN ParseMembers(s, SkipSpace(s, j + 1), members)
                                  ELSE IF s[j] = "}" THEN Parsed(JObj(members), j + 1)
                                  ELSE ParseFailed

\* one JSON value starting at i
ParseValue(s, i) ==
  IF i > Len(s) THEN ParseFailed
  ELSE CASE HasWord(s, i, <<"n", "u", "l", "l">>) -> Parsed(JNull, i + 4)
         [] HasWord(s, i, <<"t", "r", "u", "e">>) -> Parsed(JBool(TRUE), i + 4)
         [] HasWord(s, i, <<"f", "a", "l", "s", "e">>) -> Parsed(JBool(FALSE), i + 5)
         [] IsDigit(s[i]) ->
              Parsed(JNum(parseInt(SubSeq(s, i, DigitsEnd(s, i) - 1))), DigitsEnd(s, i))
         [] s[i] = "\"" ->
              LET q == NextQuote(s, i + 1)
              IN IF q = 0 THEN ParseFailed
                 ELSE Parsed([k |-> "str", v |-> SubSeq(s, i + 1, q - 1)], q + 1)
         [] s[i] = "[" ->
              LET j == SkipSpace(s, i + 1)
              IN IF j <= Len(s) /\ s[j] = "]" THEN Parsed(JArr(<<>>), j + 1)
                 ELSE ParseElements(s, j, <<>>)
         [] s[i] = "{" ->
              LET j == SkipSpace(s, i + 1)
              IN IF j <= Len(s) /\ s[j] = "}" THEN Parsed(JObj(<<>>), j + 1)
                 ELSE ParseMembers(s, j, <<>>)
         [] OTHER -> ParseFailed

\* JSON.parse(text): the value, or a SyntaxError (ok = FALSE)
JSONparseText(s) ==
  LET r == ParseValue(s, SkipSpace(s, 1))
  IN IF r.ok /\ SkipSpace(s, r.next) > Len(s) THEN [ok |-> TRUE, v |-> r.v]
     ELSE ParseFailed

(***************************************************************************)
(* TreeEditor: the mutation handlers, and JsonEditor.handleTreeChange      *)
(***************************************************************************)
\* the position of the last '.' of a path, 0 when it has none
LastDot(path) ==
  LET dots == {i \in 1..Len(path) : path[i] = "."}
  IN IF dots = {} THEN 0 ELSE CHOOSE i \in dots : \A j \in dots : j <= i

\* path.split('.').slice(0, -1).join('.') || '$'
ParentPathOf(path) ==
  LET joined == IF LastDot(path) = 0 THEN <<>> ELSE SubSeq(path, 1, LastDot(path) - 1)
  IN IF joined = <<>> THEN <<"$">> ELSE joined

RECURSIVE GetNestedLoop(_, _, _, _)
\* the for loop of getNestedValue: a primitive on the way is kept as current
GetNestedLoop(h, current, segments, i) ==
  IF i > Len(segments) THEN current
  ELSE IF current = JNull \/ current = Undefined THEN Undefined
  ELSE IF isArray(h, current)
    THEN GetNestedLoop(h, ArrGet(h[current.id].v, parseInt(segments[i])), segments, i + 1)
  ELSE IF isObject(h, current)
    THEN GetNestedLoop(h, ObjGet(h[current.id].v, segments[i]), segments, i + 1)
  ELSE GetNestedLoop(h, current, segments, i + 1)

getNestedValue(h, obj, path) ==
  GetNestedLoop(h, obj, SplitSegments(ReplaceIndexBrackets(StripRoot(path), 1)), 1)

\* handleValueChange(path, newValue): the value passed to onChange
handleValueChange(h, value, path, newValue) == setByPath(h, value, path, newValue)

\* handleKeyChange(path, oldKey, newKey)
handleKeyChange(h, value, path, newKey) ==
  LET parentPath == ParentPathOf(path)
      currentValue == getNestedValue(h, value, path)
      updated == deleteByPath(h, value, path)
      newPath == IF parentPath = <<"$">> THEN <<"$", ".">> \o newKey
                 ELSE parentPath \o <<".">> \o newKey
  IN setByPath(updated.h, updated.v, newPath, currentValue)

\* handleDelete(path)
handleDelete(h, value, path) == deleteByPath(h, value, path)

NodeTypes == {"string", "number", "boolean", "null", "object", "array"}

\* the defaults table of handleTypeChange; {} and [] are new objects
TypeDefault(h, newType) ==
  CASE newType = "string" -> [h |-> h, v |-> [k |-> "str", v |-> <<>>]]
    [] newType = "number" -> [h |-> h, v |-> JNum(0)]
    [] newType = "boolean" -> [h |-> h, v |-> JBool(FALSE)]
    [] newType = "null" -> [h |-> h, v |-> JNull]
    [] newType = "object" -> Alloc(h, [k |-> "obj", v |-> <<>>])
    [] newType = "array" -> Alloc(h, [k |-> "arr", v |-> <<>>])

\* handleTypeChange(path, newType)
handleTypeChange(h, value, path, newType) ==
  LET default == TypeDefault(h, newType)
  IN setByPath(default.h, value, path, default.v)

NewKeyName == <<"n", "e", "w", "K", "e", "y">>
RECURSIVE FreshKey(_, _, _)
\* while (newKey in obj) newKey = `newKey${counter++}`
FreshKey(pairs, newKey, counter) ==
  IF HasKey(pairs, newKey) THEN FreshKey(pairs, NewKeyName \o NumStr(counter), counter + 1)
  ELSE newKey

NotCalled == [called |-> FALSE]
\* handleAddProperty(): the value passed to onChange, if onChange is called
handleAddProperty(h, value) ==
  LET empty == [k |-> "str", v |-> <<>>]
  IN IF value = Undefined \/ value = JNull
       THEN [called |-> TRUE] @@ Alloc(h, [k |-> "obj", v |-> <<>>])
     ELSE IF isObject(h, value)
       THEN LET pairs == h[value.id].v
            IN [called |-> TRUE]
                 @@ Alloc(h, [k |-> "obj",
                              v |-> ObjSet(pairs, FreshKey(pairs, NewKeyName, 1), empty)])
     ELSE IF isArray(h, value)
       THEN [called |-> TRUE] @@ Alloc(h, [k |-> "arr", v |-> Append(h[value.id].v, empty)])
     ELSE NotCalled

\* text.trim() === ''
IsBlank(t) == \A i \in 1..Len(t) : IsSpace(t[i])

\* the parse effect of useJsonParser on the text handleTextChange has set:
\* parseJson(text) calls text.trim(), which throws when text is not a string
ParseEffectOn(t) ==
  IF ~t.isString THEN [threw |-> TRUE, error |-> FALSE, value |-> Undefined]
  ELSE IF IsBlank(t.chars) THEN [threw |-> FALSE, error |-> FALSE, value |-> Undefined]
  ELSE LET r == JSONparseText(t.chars)
       IN IF r.ok THEN [threw |-> FALSE, error |-> FALSE, value |-> r.v]
          ELSE [threw |-> FALSE, error |-> TRUE, value |-> Undefined]

\* the documents shown in the tree editor
EditDocs == {Doc1, Doc2, JObj(<<>>), JNum(5), Undefined}
\* the names typed into the key field: c, the empty string, c.d and c[0]
NewKeys == {<<"c">>, <<>>, <<"c", ".", "d">>, <<"c", "[", "0", "]">>}

Edit(kind, path, newKey, type) ==
  [kind |-> kind, path |-> path, newKey |-> newKey, type |-> type]

\* the nodes of a tree: path, type, and whether the key is the root's, an
\* object key or an array index
RECURSIVE AllNodes(_, _)
AllNodes(node, keyKind) ==
  IF node = NoNode THEN {}
  ELSE {[path |-> node.path, type |-> node.type, keyKind |-> keyKind]}
         \cup UNION {AllNodes(node.children[i],
                              IF node.type = "object" THEN "key" ELSE "index") :
                       i \in 1..Len(node.children)}

\* what a user can do in the tree that shows doc, every node expanded
Edits(doc) ==
  LET loaded == Load(<<>>, doc)
      nodes == AllNodes(buildTree(loaded.h, loaded.v, <<"$">>, "root", 0, TreePaths), "root")
  IN {Edit("add", <<"$">>, <<>>, "none")}
       \cup {Edit("delete", n.path, <<>>, "none") : n \in nodes}
       \cup {Edit("type", n.path, <<>>, t) : n \in nodes, t \in NodeTypes}
       \cup {Edit("value", n.path, <<>>, n.type) :
               n \in {m \in nodes : m.type \notin {"object", "array"}}}
       \cup {Edit("key", n.path, k, "none") :
               n \in {m \in nodes : m.keyKind # "index"}, k \in NewKeys}

\* TreeNode.handleFinishEdit: the new value of a node of the given type
EditedValue(type) ==
  CASE type = "string" -> [k |-> "str", v |-> <<"a">>]
    [] type = "number" -> JNum(9)
    [] type = "boolean" -> JBool(TRUE)
    [] OTHER -> JNull

TreeEditInit == \E v \in EditDocs : \E e \in Edits(v) :
  /\ args = [fn |-> "edit", v |-> v, edit |-> e]
  /\ returned = [pc |-> "start"]
  /\ SearchInit(<<>>) /\ ProgramIdle

\* onChange(result) called by a handler of the tree editor
OnChangeCalled(doc, r) ==
  /\ returned' = [pc |-> "onChange", before |-> doc.h, obj |-> doc.v, h |-> r.h, out |-> r.v]
  /\ ProgramIdleStep /\ UNCHANGED <<svars, args>>

TreeEditAt(kind) == args.fn = "edit" /\ returned.pc = "start" /\ args.edit.kind = kind

CallHandleValueChange ==
  /\ TreeEditAt("value")
  /\ LET doc == Load(<<>>, args.v)
     IN OnChangeCalled(doc, handleValueChange(doc.h, doc.v, args.edit.path,
                                              EditedValue(args.edit.type)))

CallHandleKeyChange ==
  /\ TreeEditAt("key")
  /\ LET doc == Load(<<>>, args.v)
     IN OnChangeCalled(doc, handleKeyChange(doc.h, doc.v, args.edit.path, args.edit.newKey))

CallHandleDelete ==
  /\ TreeEditAt("delete")
  /\ LET doc == Load(<<>>, args.v)
     IN OnChangeCalled(doc, handleDelete(doc.h, doc.v, args.edit.path))

CallHandleTypeChange ==
  /\ TreeEditAt("type")
  /\ LET doc == Load(<<>>, args.v)
     IN OnChangeCalled(doc, handleTypeChange(doc.h, doc.v, args.edit.path, args.edit.type))

CallHandleAddProperty ==
  /\ TreeEditAt("add")
  /\ LET doc == Load(<<>>, args.v)
         r == handleAddProperty(doc.h, doc.v)
     IN IF r.called THEN OnChangeCalled(doc, r)
        ELSE /\ returned' = [pc |-> "done"]
             /\ ProgramIdleStep /\ UNCHANGED <<svars, args>>

\* handleTreeChange(newValue): text = JSON.stringify(newValue, null, indent),
\* handleTextChange(text), and the parse effect that follows parser.setText(text)
CallHandleTreeChange ==
  /\ args.fn = "edit" /\ returned.pc = "onChange"
  /\ LET t == JSONstringifyValue(returned.h, returned.out, indentation)
     IN returned' = [pc |-> "handleTreeChange", before |-> returned.before,
                     obj |-> returned.obj, h |-> returned.h, out |-> returned.out,
                     text |-> t, parsed |-> ParseEffectOn(t)]
  /\ ProgramIdleStep /\ UNCHANGED <<svars, args>>

TreeEditNext ==
  \/ CallHandleValueChange \/ CallHandleKeyChange \/ CallHandleDelete
  \/ CallHandleTypeChange \/ CallHandleAddProperty \/ CallHandleTreeChange

TreeEditSpec == TreeEditInit /\ [][TreeEditNext]_vars

(***************************************************************************)
(* Properties of useUndoRedo (checked under Spec)                          *)
(***************************************************************************)
\* the precondition of the grouped branch of set, read off the state before the call
GroupingApplies == now - lastUpdateTime < groupingInterval /\ positionRef > 0

\* C1: whatever sequence of set, undo, redo and reset was called,
\* 0 <= position < entries.length, and current is the entry at position
C1_PositionInRange ==
  /\ 0 <= positionRef
  /\ positionRef < Len(historyRef)
  /\ rendered.current = historyRef[positionRef + 1]

\* a full history in which undo walked back to the oldest entry after trimming
C1_Witness ==
  /\ maxHistory >= 2
  /\ Len(historyRef) = maxHistory
  /\ positionRef = 0
  /\ op.name = "undo" /\ op.moved

C3_NonGroupedAppends ==
  [][(op'.name = "set" /\ ~GroupingApplies) =>
       LET trimCount == Max(0, positionRef + 2 - maxHistory)
       IN /\ Len(historyRef') = positionRef + 2 - trimCount
          /\ positionRef' = positionRef + 1 - trimCount
          /\ historyRef'[Len(historyRef')] = op'.value
          /\ \A i \in 1..(positionRef + 1 - trimCount) :
               historyRef'[i] = historyRef[i + trimCount]]_vars

\* a non-grouped set has appended after the old position without trimming
C3_Witness ==
  /\ op.name = "set" /\ ~op.grouped
  /\ positionRef >= 1
  /\ Len(historyRef) = positionRef + 1
  /\ Len(historyRef) < maxHistory
  /\ historyRef[positionRef + 1] = op.value

\* C4 as stated: after n non-grouped sets on a fresh history, 1 <= n <= maxHistory,
\* historyLength = n + 1, canUndo is true and canRedo is false
C4_Original ==
  (freshSets >= 1 /\ freshSets <= maxHistory) =>
    /\ rendered.historyLength = freshSets + 1
    /\ rendered.canUndo
    /\ ~rendered.canRedo

\* C4 amended: after n non-grouped sets on a fresh history, 1 <= n <= maxHistory - 1,
\* historyLength = n + 1, canUndo is true and canRedo is false, and one undo then
\* makes canRedo true; in every state canUndo = (position > 0),
\* canRedo = (position < length - 1) and historyLength = length
C4_HistoryLength ==
  /\ [](/\ (freshSets >= 1 /\ freshSets <= maxHistory - 1) =>
             /\ rendered.historyLength = freshSets + 1
             /\ rendered.canUndo
             /\ ~rendered.canRedo
        /\ rendered.canUndo = (positionRef > 0)
        /\ rendered.canRedo = (positionRef < Len(historyRef) - 1)
        /\ rendered.historyLength = Len(historyRef))
  /\ [][(freshSets >= 1 /\ freshSets <= maxHistory - 1 /\ op'.name = "undo") =>
          rendered'.canRedo]_vars

\* two non-grouped sets on a fresh history that still has room
C4_Witness ==
  /\ freshSets = 2
  /\ freshSets <= maxHistory - 1
  /\ op.name = "set"

\* C5: the history never holds more than maxHistory entries; a set that
\* overflows drops the oldest entries and shifts position down by as many,
\* so that current is the value just written
C5_BoundedHistory ==
  /\ [](Len(historyRef) <= maxHistory)
  /\ [][(op'.name = "set" /\ ~GroupingApplies /\ positionRef + 2 > maxHistory) =>
          LET trimCount == positionRef + 2 - maxHistory
          IN /\ Len(historyRef') = maxHistory
             /\ positionRef' = Max(0, positionRef + 1 - trimCount)
             /\ rendered'.current = op'.value
             /\ historyRef'[positionRef' + 1] = op'.value
             /\ \A i \in 1..(maxHistory - 1) :
                  historyRef'[i] = historyRef[i + trimCount]]_vars

\* a set on a full history has dropped the oldest entry
C5_Witness ==
  /\ op.name = "set" /\ ~op.grouped
  /\ maxHistory >= 2
  /\ Len(historyRef) = maxHistory
  /\ positionRef = maxHistory - 1
  /\ freshSets > maxHistory - 1

\* C6: undo decrements position when position > 0 and is otherwise a no-op,
\* redo increments it when position < length - 1 and is otherwise a no-op,
\* neither changes the entries, and a redo after an undo that moved restores
\* the value that was current before the undo
C6_UndoRedo ==
  /\ [][op'.name = "undo" =>
          /\ historyRef' = historyRef
          /\ positionRef' = IF positionRef > 0 THEN positionRef - 1 ELSE positionRef]_vars
  /\ [][op'.name = "redo" =>
          /\ historyRef' = historyRef
          /\ positionRef' = IF positionRef < Len(historyRef) - 1
                              THEN positionRef + 1 ELSE positionRef]_vars
  /\ [][(op.name = "undo" /\ op.moved /\ op'.name = "redo") =>
          /\ op'.moved
          /\ rendered'.current = op.before]_vars

\* a redo has just moved forward again
C6_Witness ==
  /\ op.name = "redo" /\ op.moved
  /\ positionRef >= 1

\* C7: reset(v) leaves exactly the entry v at position 0 with canUndo and
\* canRedo false and the grouping timer cleared, and the first set on the
\* fresh history appends instead of replacing, however soon it follows
C7_Reset ==
  /\ [][op'.name = "reset" =>
          /\ historyRef' = <<op'.value>>
          /\ positionRef' = 0
          /\ ~rendered'.canUndo /\ ~rendered'.canRedo
          /\ rendered'.current = op'.value
          /\ lastUpdateTime' = 0]_vars
  /\ [][(op.name = "reset" /\ op'.name = "set") =>
          /\ ~op'.grouped
          /\ maxHistory >= 2 =>
               (historyRef' = <<op.value, op'.value>> /\ positionRef' = 1)]_vars

\* a reset has replaced a longer history after time has passed
C7_Witness ==
  /\ op.name = "reset"
  /\ historyRef = <<op.value>>
  /\ lastUpdateTime = 0
  /\ now > StartTime

(***************************************************************************)
(* Properties of JsonEditor (checked under EditorSpec)                     *)
(***************************************************************************)
\* C8: after any sequence of code edits, tree edits, format requests, undo,
\* redo and external value updates, parser.text is the history's current entry
C8_TextIsHistoryCurrent ==
  /\ positionRef + 1 \in DOMAIN historyRef
  /\ text = historyRef[positionRef + 1]

(***************************************************************************)
(* Properties of useJsonParser (checked under ParserSpec)                  *)
(***************************************************************************)
\* the text parses to a value, so the effect schedules a validation
Validatable(t) == ~parseJson(t).error /\ parseJson(t).value # Undefined

\* C9: a text change that parses cancels the pending validation and schedules
\* one `debounce` ms later; at most one validation is pending, it is the one
\* of the current text, and a timer that was superseded never runs
C9_DebouncedValidation ==
  /\ [](/\ Cardinality(timers) <= 1
        /\ \A tm \in timers :
             /\ tm.id = debounceTimer
             /\ tm.id \notin cancelled
             /\ Validatable(text) /\ tm.value = parseJson(text).value)
  /\ [][(text' # text /\ Validatable(text')) =>
          /\ timers' = {[id |-> nextTimerId, value |-> parseJson(text').value,
                         due |-> now + debounce]}
          /\ cancelled' = cancelled \cup {tm.id : tm \in timers}]_vars
  /\ [][op'.name = "timer" =>
          /\ fired'.id \notin cancelled
          /\ fired'.id = debounceTimer
          /\ fired'.value = parseJson(text).value]_vars

\* a validation ran after an earlier pending one had been superseded
C9_Witness ==
  /\ op.name = "timer"
  /\ cancelled # {}
  /\ fired.id > 1
  /\ timers = {}

\* C10: once a newer validation run has written the error list, the result of
\* an older run is not applied: validationErrors written by a run are those of
\* the newest run that has written
C10_NoStaleResult ==
  writer # 0 =>
    /\ writer = newestWriter.id
    /\ validationErrors = ValidationResult(newestWriter.value)

(***************************************************************************)
(* Properties of useSearch (checked under SearchSpec and ScanSpec)         *)
(***************************************************************************)
\* C11: with m >= 1 matches goToNext takes index i to (i + 1) mod m and
\* goToPrevious takes i to (i - 1 + m) mod m; m consecutive goToNext calls
\* that start on a match are back on it, goToPrevious from the first match
\* is on the last; with no match both leave the index alone
C11_CyclicNavigation ==
  /\ nav.name = "goToNext" =>
        currentMatchIndex =
          IF nav.total = 0 THEN nav.before ELSE (nav.before + 1) % nav.total
  /\ nav.name = "goToPrevious" =>
        currentMatchIndex =
          IF nav.total = 0 THEN nav.before
          ELSE (nav.before - 1 + nav.total) % nav.total
  /\ (nav.name = "goToNext" /\ nav.total >= 1 /\ nav.count = nav.total
        /\ nav.start < nav.total) => currentMatchIndex = nav.start
  /\ (nav.name = "goToPrevious" /\ nav.total >= 1 /\ nav.before = 0)
        => currentMatchIndex = nav.total - 1

\* a full round of goToNext over at least two matches has been made
C11_Witness ==
  /\ nav.name = "goToNext" /\ nav.total >= 2 /\ nav.count = nav.total
  /\ nav.start = 1 /\ currentMatchIndex = 1

\* C12: setQuery, setOptions and close leave currentMatchIndex at 0,
\* whatever index navigation had reached before
C12_ResetsIndex ==
  nav.name \in {"setQuery", "setOptions", "close"} => currentMatchIndex = 0

\* an option was toggled while a later match was the current one
C12_Witness ==
  /\ nav.name = "setOptions" /\ nav.before > 0 /\ currentMatchIndex = 0

\* the scan position stays inside the line being scanned (one past its end
\* at most)
ScanInBounds ==
  returned.pc = "loop" =>
    LET lines == SplitLines(args.text)
        s == returned.scan
    IN /\ s.lineIdx <= Len(lines)
       /\ s.lineIdx < Len(lines) => s.lastIndex <= Len(lines[s.lineIdx + 1]) + 1

\* every pass through the loop moves the scan forward: to a later line, or
\* to a later position of the same line
ScanMovesForward ==
  (returned.pc = "loop" /\ returned'.pc = "loop") =>
    \/ returned'.scan.lineIdx > returned.scan.lineIdx
    \/ /\ returned'.scan.lineIdx = returned.scan.lineIdx
       /\ returned'.scan.lastIndex > returned.scan.lastIndex

\* a zero-width match moves the position one past the match
ZeroWidthAdvances ==
  (returned.pc = "loop" /\ returned'.pc = "loop"
     /\ Len(returned'.scan.results) > Len(returned.scan.results)) =>
    LET r == returned'.scan.results[Len(returned'.scan.results)]
    IN r.columnStart = r.columnEnd => returned'.scan.lastIndex = r.columnEnd + 1

\* C13: the scan terminates for every query, text and option setting,
\* regex queries that match the empty string included: a zero-width match
\* advances the position by one, every pass moves forward inside a bounded
\* range, and the memo returns
C13_ScanTerminates ==
  /\ []ScanInBounds
  /\ [][ScanMovesForward /\ ZeroWidthAdvances]_vars
  /\ <>(returned.pc = "done")

\* a scan that pushed a zero-width match has returned
C13_Witness ==
  /\ returned.pc = "done"
  /\ \E i \in 1..Len(returned.matches) :
        returned.matches[i].columnStart = returned.matches[i].columnEnd

(***************************************************************************)
(* Properties of the path engine (checked under PathSpec)                  *)
(***************************************************************************)
PathSegments == parsePath(args.path)
\* what the call was given and what it returned, at the first i segments
InputAt(i) == GetBySegments(returned.before, returned.obj, SubSeq(PathSegments, 1, i), 1)
OutputAt(i) == GetBySegments(returned.h, returned.out, SubSeq(PathSegments, 1, i), 1)
PathPresent == getByPath(returned.before, returned.obj, args.path) # Undefined

\* C14: for every value v, every path p present in v and every new value x,
\* getByPath(setByPath(v, p, x), p) is x
C14_GetAfterSet ==
  (returned.pc = "setByPath" /\ PathPresent) =>
     getByPath(returned.h, returned.out, args.path) = returned.value

\* a value two levels down, reached through an array, was replaced
C14_Witness ==
  /\ returned.pc = "setByPath" /\ PathPresent
  /\ Len(PathSegments) >= 2
  /\ \E i \in 0..(Len(PathSegments) - 1) : isArray(returned.before, InputAt(i))
  /\ getByPath(returned.h, returned.out, args.path) = returned.value

\* the objects that existed before the call are as they were
InputUnchanged ==
  /\ Len(returned.h) >= Len(returned.before)
  /\ SubSeq(returned.h, 1, Len(returned.before)) = returned.before

\* from segment i on: a container of the input that lies on the path is
\* replaced by a new container of the same kind whose other entries are the
\* very entries of the input
RECURSIVE CopiedAlong(_, _, _)
CopiedAlong(cin, cout, i) ==
  IF i > Len(PathSegments) \/ cin.k # "ref" THEN TRUE
  ELSE LET segment == PathSegments[i]
           old == returned.before[cin.id]
       IN /\ cout.k = "ref"
          /\ cout.id > Len(returned.before)
          /\ returned.h[cout.id].k = old.k
          /\ LET new == returned.h[cout.id] IN
             IF old.k = "arr"
               THEN /\ Len(new.v) >= Len(old.v)
                    /\ \A j \in 1..Len(old.v) :
                          j # parseInt(segment) + 1 => new.v[j] = old.v[j]
                    /\ CopiedAlong(ArrGet(old.v, parseInt(segment)),
                                   ArrGet(new.v, parseInt(segment)), i + 1)
               ELSE /\ Len(new.v) >= Len(old.v)
                    /\ \A j \in 1..Len(old.v) :
                          old.v[j].key # segment => new.v[j] = old.v[j]
                    /\ CopiedAlong(ObjGet(old.v, segment), ObjGet(new.v, segment), i + 1)

\* C15: setByPath never mutates its input, every container on the path from
\* the root to the target is a fresh copy in the result, and every subtree
\* off that path is shared between input and result
C15_CopyOnWrite ==
  returned.pc = "setByPath" =>
    /\ InputUnchanged
    /\ Deref(returned.h, returned.obj) = args.v
    /\ IsRootPath(args.path) \/ CopiedAlong(returned.obj, returned.out, 1)

\* a value was set below two containers that have sibling subtrees
C15_Witness ==
  /\ returned.pc = "setByPath" /\ PathPresent
  /\ Len(PathSegments) = 3
  /\ isObject(returned.before, InputAt(0)) /\ isArray(returned.before, InputAt(1))
  /\ Len(returned.before[InputAt(1).id].v) = 3
  /\ OutputAt(3) = returned.value
  /\ OutputAt(0) # InputAt(0) /\ OutputAt(1) # InputAt(1)

\* the path leaves the input at segment i: an object of the input has no
\* such key
FirstAbsentKey(i) ==
  /\ i \in 1..Len(PathSegments)
  /\ isObject(returned.before, InputAt(i - 1))
  /\ ~HasKey(returned.before[InputAt(i - 1).id].v, PathSegments[i])

\* C16: when setByPath descends through an absent key, the container
\* created for that key is an array if the next segment is all digits and
\* an object otherwise, at every missing level of the path
C16_MissingContainerKind ==
  returned.pc = "setByPath" =>
    \A first \in 1..Len(PathSegments) :
      FirstAbsentKey(first) =>
        \A i \in first..(Len(PathSegments) - 1) :
          IF AllDigits(PathSegments[i + 1])
            THEN isArray(returned.h, OutputAt(i))
            ELSE isObject(returned.h, OutputAt(i))

\* the path ends at an element the input array has
AddressesArrayElement ==
  /\ Len(PathSegments) >= 1
  /\ isArray(returned.before, InputAt(Len(PathSegments) - 1))
  /\ parseInt(PathSegments[Len(PathSegments)]) >= 0
  /\ parseInt(PathSegments[Len(PathSegments)])
        < Len(returned.before[InputAt(Len(PathSegments) - 1).id].v)

\* C17: deleteByPath at an existing array element returns an array one
\* element shorter, without that element, the others in their order (later
\* ones one index down, no hole); the input array is not mutated
C17_DeleteArrayElement ==
  (returned.pc = "deleteByPath" /\ AddressesArrayElement) =>
    LET n == Len(PathSegments)
        index == parseInt(PathSegments[n])
        old == returned.before[InputAt(n - 1).id].v
    IN /\ isArray(returned.h, OutputAt(n - 1))
       /\ OutputAt(n - 1) # InputAt(n - 1)
       /\ returned.h[InputAt(n - 1).id].v = old
       /\ LET new == returned.h[OutputAt(n - 1).id].v
          IN /\ Len(new) = Len(old) - 1
             /\ \A j \in 1..Len(new) :
                   new[j] = (IF j <= index THEN old[j] ELSE old[j + 1])
             /\ \A j \in 1..Len(new) : new[j] # Undefined

\* an element that is not the last one of a nested array was deleted
C17_Witness ==
  /\ returned.pc = "deleteByPath" /\ AddressesArrayElement
  /\ Len(PathSegments) >= 2
  /\ parseInt(PathSegments[Len(PathSegments)]) + 1
       < Len(returned.before[InputAt(Len(PathSegments) - 1).id].v)
  /\ Len(returned.h[OutputAt(Len(PathSegments) - 1).id].v)
       = Len(returned.before[InputAt(Len(PathSegments) - 1).id].v) - 1

(***************************************************************************)
(* Properties of buildTree (checked under TreeSpec)                        *)
(***************************************************************************)
\* node and everything built below it: the count is the number of entries
\* of the value, a collapsed node has no children, an expanded one has one
\* child per entry, in order, one level down
RECURSIVE NodeAsClaimed(_)
NodeAsClaimed(node) ==
  IF node.type \notin {"object", "array"}
    THEN node.children = <<>> /\ node.childCount = 0
    ELSE LET entries == returned.h[node.value.id].v
         IN /\ node.childCount = Len(entries)
            /\ node.expanded = (node.path \in args.expandedPaths)
            /\ IF node.path \notin args.expandedPaths
                 THEN node.children = <<>>
                 ELSE /\ Len(node.children) = Len(entries)
                      /\ \A i \in 1..Len(node.children) :
                            /\ node.children[i].depth = node.depth + 1
                            /\ node.children[i].value =
                                  (IF node.type = "object" THEN entries[i].val
                                   ELSE entries[i])
                            /\ NodeAsClaimed(node.children[i])

\* C18: every object or array node has the true number of children as its
\* childCount, expanded or not; children are built only for nodes whose path
\* is in expandedPaths, one per entry, each at the parent's depth + 1
C18_BuildTree ==
  (returned.pc = "buildTree" /\ returned.tree # NoNode) =>
     /\ returned.tree.depth = 0
     /\ NodeAsClaimed(returned.tree)

\* a tree with an expanded nested array next to a collapsed object that has
\* an entry
C18_Witness ==
  /\ returned.pc = "buildTree" /\ returned.tree # NoNode
  /\ returned.tree.expanded /\ Len(returned.tree.children) = 2
  /\ ~returned.tree.children[1].expanded
  /\ returned.tree.children[1].childCount = 1
  /\ returned.tree.children[2].expanded
  /\ Len(returned.tree.children[2].children) = 3

(***************************************************************************)
(* Properties of validateSchema (checked under ValidatorSpec)              *)
(***************************************************************************)
\* the errors with this keyword reported at this path
ErrorsAt(path, keyword) ==
  {i \in 1..Len(returned.errors) :
     returned.errors[i].path = path /\ returned.errors[i].schemaKeyword = keyword}

\* the value's JSON type is one of the declared types (an integer is a number)
TypeAllowed(value, type) ==
  LET names == {allowedTypes(type)[i] : i \in 1..Len(allowedTypes(type))}
      actual == getJsonType(value)
  IN actual \in names \/ (actual = "integer" /\ "number" \in names)

\* C19: for every value, null included, and every type declaration, single
\* or union, a type error is reported exactly when the value's JSON type is
\* not among the allowed types (an integer satisfies number); a null or
\* undefined value with a non-null required type gets exactly one type
\* error and nothing else is checked at that node
C19_TypeErrors ==
  (returned.pc = "validateSchema" /\ Has(args.schema, "type")) =>
    /\ args.value # Undefined =>
         Cardinality(ErrorsAt("$", "type")) =
           (IF TypeAllowed(args.value, args.schema.type) THEN 0 ELSE 1)
    /\ (args.value \in {Undefined, JNull} /\ ~TypeAllowed(JNull, args.schema.type)) =>
         returned.errors = <<makeError("$", "type")>>

\* C20: for an object validated against a schema with additionalProperties:
\* false there is exactly one additionalProperties error for each key that
\* the schema's properties do not match, and none for a matched key
C20_AdditionalProperties ==
  (returned.pc = "validateSchema" /\ args.value.k = "obj"
     /\ Has(args.schema, "additionalProperties")
     /\ args.schema.additionalProperties = FALSE) =>
    \A i \in 1..Len(args.value.v) :
      LET key == args.value.v[i].key
          matched == Has(args.schema, "properties")
                       /\ key \in DOMAIN args.schema.properties
      IN Cardinality(ErrorsAt("$." \o key, "additionalProperties")) =
           (IF matched THEN 0 ELSE 1)

\* the number of errors the constraint `keyword` of the schema calls for at
\* the root: one when the constraint is violated by a value of its family
\* (required: one for each missing property), none otherwise
Violations(value, sch, keyword) ==
  LET isNumber == value.k \in {"num", "real"}
      One(cond) == IF cond THEN 1 ELSE 0
  IN IF ~Has(sch, keyword) THEN 0
     ELSE CASE keyword = "type" -> One(~TypeAllowed(value, sch.type))
            [] keyword = "enum" -> One(~SeqIncludes(sch.enum, value))
            [] keyword = "minLength" -> One(value.k = "str" /\ Len(value.v) < sch.minLength)
            [] keyword = "maxLength" -> One(value.k = "str" /\ Len(value.v) > sch.maxLength)
            [] keyword = "minimum" -> One(isNumber /\ Twice(value) < 2 * sch.minimum)
            [] keyword = "maximum" -> One(isNumber /\ Twice(value) > 2 * sch.maximum)
            [] keyword = "multipleOf" ->
                 One(isNumber /\ Twice(value) % (2 * sch.multipleOf) # 0)
            [] keyword = "minItems" -> One(value.k = "arr" /\ Len(value.v) < sch.minItems)
            [] keyword = "maxItems" -> One(value.k = "arr" /\ Len(value.v) > sch.maxItems)
            [] keyword = "uniqueItems" ->
                 One(value.k = "arr" /\ sch.uniqueItems
                       /\ \E i, j \in 1..Len(value.v) : i # j /\ value.v[i] = value.v[j])
            [] keyword = "minProperties" ->
                 One(value.k = "obj" /\ Len(value.v) < sch.minProperties)
            [] keyword = "maxProperties" ->
                 One(value.k = "obj" /\ Len(value.v) > sch.maxProperties)
            [] keyword = "required" ->
                 IF value.k = "obj"
                   THEN Cardinality({i \in 1..Len(sch.required) :
                                       ~HasProperty(value.v, sch.required[i])})
                   ELSE 0
            [] OTHER -> 0

NodeKeywords ==
  {"type", "enum", "minLength", "maxLength", "minimum", "maximum", "multipleOf",
   "minItems", "maxItems", "uniqueItems", "minProperties", "maxProperties", "required"}

\* C21: errors accumulate without short-circuit: at the root node every
\* violated constraint of the value's family, type and enum included,
\* contributes exactly one error with its keyword, whether or not type is
\* declared; valid is true exactly when the error list is empty
C21_ErrorsAccumulate ==
  (returned.pc = "validateSchema" /\ args.value # Undefined) =>
    /\ \A keyword \in NodeKeywords :
         Cardinality(ErrorsAt("$", keyword)) = Violations(args.value, args.schema, keyword)
    /\ returned.valid = (returned.errors = <<>>)

\* the steps a user interaction with the code editor, the tree editor, the
\* toolbar or the keyboard shortcuts takes; a "set" step is handleTextChange,
\* the only caller of onChange
UserInteraction == op'.name \in {"set", "undo", "redo", "format"}

\* C22: while readOnly is true no user interaction changes the text or the
\* history, and onChange (called by handleTextChange only) is never invoked
C22_ReadOnlyBlocksEdits ==
  [][(readOnly /\ UserInteraction) =>
       /\ op'.name # "set"
       /\ UNCHANGED <<text, historyRef, positionRef>>]_vars

\* the number of newline characters of t before index offset
NewlinesBefore(t, offset) == Cardinality({i \in 1..offset : t[i] = "\n"})

\* C23: for every offset o of a text, 0 <= o <= text.length, the position
\* getLineColFromOffset returns is 1-based, its line counts the newlines before
\* o (a newline belongs to the line it ends), and getOffsetFromLineCol of that
\* position returns o
C23_OffsetRoundTrip ==
  /\ (args.fn = "lineCol" /\ returned.pc # "start") =>
       /\ returned.line = 1 + NewlinesBefore(args.text, args.offset)
       /\ returned.column >= 1
  /\ (args.fn = "lineCol" /\ returned.pc = "getOffsetFromLineCol") =>
       returned.offset = args.offset

\* the offset of a newline, on a line that is not the first, was converted
\* to a position and back
C23_Witness ==
  /\ args.fn = "lineCol" /\ returned.pc = "getOffsetFromLineCol"
  /\ args.offset < Len(args.text)
  /\ args.text[args.offset + 1] = "\n"
  /\ returned.line > 1 /\ returned.column > 1

\* C24: whenever the query has at least one match in the text, also after
\* the text has changed, currentMatchIndex is the index of one of the matches
C24_MatchIndexInRange ==
  Len(matches) >= 1 => (0 <= currentMatchIndex /\ currentMatchIndex < Len(matches))

\* C25: right after any set(v), grouped or not, trimmed or not, current is v,
\* position is the last index of the history and canRedo is false
C25_SetLeavesNoRedo ==
  op.name = "set" =>
    /\ rendered.current = op.value
    /\ historyRef[Len(historyRef)] = op.value
    /\ positionRef = Len(historyRef) - 1
    /\ ~rendered.canRedo

\* a grouped set and a set that trimmed a full history have both been seen:
\* here a grouped set on a history that is full
C25_Witness ==
  /\ op.name = "set" /\ op.grouped
  /\ maxHistory >= 2
  /\ Len(historyRef) = maxHistory
  /\ positionRef = maxHistory - 1

\* C26: when an undo or a redo has just moved to a value and set(v) is the
\* next call, at any time, that value is still in the history, directly
\* before v, so that one undo returns to it
C26_UndoneValueKept ==
  [][(op.name \in {"undo", "redo"} /\ op.moved /\ op'.name = "set") =>
       /\ positionRef' >= 1
       /\ historyRef'[positionRef'] = rendered.current
       /\ historyRef'[positionRef' + 1] = op'.value]_vars

\* C27: whenever the text is empty or does not parse, validationErrors is
\* empty, also when a validation started for an earlier text completes late
C27_NoErrorsWithoutValue ==
  (text = "" \/ parseError) => validationErrors = <<>>

\* C30: deleteByPath(v, p) for a path p other than the root that is not
\* present in v returns a value equal to v
C30_DeleteAbsentPath ==
  (returned.pc = "deleteByPath" /\ PathSegments # <<>> /\ ~PathPresent) =>
     Deref(returned.h, returned.out) = args.v

\* C28: after a mutation in the tree view the editor's text is a string, the
\* parse effect does not throw, and the text parses to the value the path
\* engine produced, or is the empty state when that value is undefined
C28_TreeEditText ==
  returned.pc = "handleTreeChange" =>
    /\ returned.text.isString
    /\ ~returned.parsed.threw /\ ~returned.parsed.error
    /\ returned.parsed.value = Deref(returned.h, returned.out)

\* equality of documents, the order of an object's keys left aside
RECURSIVE SameValue(_, _)
SameValue(a, b) ==
  IF a.k # b.k THEN FALSE
  ELSE CASE a.k = "obj" ->
              /\ Len(a.v) = Len(b.v)
              /\ \A i \in 1..Len(a.v) :
                    /\ HasKey(b.v, a.v[i].key)
                    /\ SameValue(a.v[i].val, ObjGet(b.v, a.v[i].key))
         [] a.k = "arr" ->
              /\ Len(a.v) = Len(b.v)
              /\ \A i \in 1..Len(a.v) : SameValue(a.v[i], b.v[i])
         [] OTHER -> a = b

\* the document x with the key named by the last of segs replaced by newKey
RECURSIVE RenamedAt(_, _, _, _)
RenamedAt(x, segs, i, newKey) ==
  IF x.k = "obj"
    THEN JObj([j \in 1..Len(x.v) |->
                 IF x.v[j].key # segs[i] THEN x.v[j]
                 ELSE IF i = Len(segs) THEN KV(newKey, x.v[j].val)
                 ELSE KV(x.v[j].key, RenamedAt(x.v[j].val, segs, i + 1, newKey))])
    ELSE JArr([j \in 1..Len(x.v) |->
                 IF j # parseInt(segs[i]) + 1 THEN x.v[j]
                 ELSE RenamedAt(x.v[j], segs, i + 1, newKey)])

\* the key of an object was renamed to a key the object does not have
RenamesObjectKey ==
  /\ returned.pc = "onChange" /\ args.edit.kind = "key"
  /\ args.edit.path # <<"$">>
  /\ LET segs == parsePath(args.edit.path)
         parent == GetBySegments(returned.before, returned.obj,
                                 SubSeq(segs, 1, Len(segs) - 1), 1)
     IN ~HasKey(returned.before[parent.id].v, args.edit.newKey)

\* C29: renaming an object key to a key its parent does not have, whatever
\* the new key (empty, with a dot, with brackets), moves the entry's value
\* under the new key and leaves every other key and the rest of the document
\* as they were
C29_RenameKey ==
  RenamesObjectKey =>
    SameValue(Deref(returned.h, returned.out),
              RenamedAt(args.v, parsePath(args.edit.path), 1, args.edit.newKey))

=============================================================================
